---------------------------- MODULE Spec2Model ----------------------------
(***************************************************************************)
(* A model of the QuranLife verse-matching engine (QuranEngine) and of the *)
(* components that call it.  Text is kept as text: goal texts, keywords,   *)
(* guidance strings and translations are TLA+ strings and the engine's     *)
(* string operations (toLowerCase, split, replace, includes) are computed  *)
(* character by character.  Theme scores are kept doubled (the code adds   *)
(* 1 and 0.5) and relevance scores are kept as tenths over the number of   *)
(* goal tokens (the code weighs 1.0, 0.7 and 0.5), so that all arithmetic  *)
(* is exact integer arithmetic.                                            *)
(*                                                                         *)
(* The sign U+FDFA that occurs in three guidance strings is written "*":   *)
(* keywords only hold characters of [a-z0-9_], so no substring test can    *)
(* tell the two apart.                                                     *)
(***************************************************************************)
EXTENDS Integers, Sequences, FiniteSets, TLC

VARIABLES
    pGoal,       \* pure pipeline: the goal text given to the classifier
    pKeywords,   \* pure pipeline: extractKeywords(pGoal)
    pTheme,      \* pure pipeline: determineTheme(pKeywords)
    pPc,         \* pure pipeline: "input", "extracted", "classified", "built" or "scored"
    pQueries,    \* pure pipeline: buildSearchQueries(pGoal, pKeywords, pTheme)
    pText,       \* pure pipeline: the translation of the passage given to the scorer
    pScore,      \* pure pipeline: what calculateRelevanceScore did for pGoal and pText
    calls,       \* engine: the method calls in flight or last finished, by slot
    apiCache,    \* engine: cache key -> stored ThematicCollection
    cacheExpiry, \* engine: cache key -> expiry time in ms
    now,         \* the clock (Date.now()), in ms
    shown,       \* history: the passages obtained in the current session
    lastFind,    \* history: goal and result of the last finished findVersesForGoal
    made,        \* history: the number of engine calls made
    failures,    \* history: the number of remote calls that failed
    props,       \* SmartGuidance: goalTitle, goalDescription and goalCategory
    guidance,    \* SmartGuidance: the list of GoalMatchResult displayed
    loading,     \* SmartGuidance: the initial load is under way
    loadingMore, \* SmartGuidance: a load of more guidance is under way
    captured,    \* SmartGuidance: the guidance list that handleLoadMore closed over
    awaiting,    \* SmartGuidance: the slots of the lookups whose loadGuidance has not resumed
    storage,     \* dashboard: the goal list stored under 'quranlife-goals'
    goals,       \* dashboard: the goals state of the rendered component
    queued,      \* dashboard: the setGoals values queued for the next render
    phase,       \* dashboard: "load", "save", "spot", "render" or "ready"
    pass,        \* dashboard: the number of passes of the mount effects finished
    strict,      \* dashboard: React runs the mount effects twice (StrictMode)
    clock,       \* dashboard: the clock read by Date.now() and new Date(), in ticks
    editingGoal, \* GoalsList: the id of the goal in the edit form, or NoId
    selectedGoal,        \* GoalsList: the id of the goal whose guidance panel is open
    newlyCreatedGoalId,  \* GoalsList: the id marked as newly created
    guidanceGoalId,      \* dashboard with spotlight: the id chosen for the spotlight
    showGuidance,        \* dashboard with spotlight: the guidance panel is shown
    removed,     \* history: the ids of the goals the user removed
    swCaches,    \* service worker: cache name -> the URLs with a stored response
    swEvent,     \* service worker: the fetch event being answered
    swPhase      \* service worker: "installing" or "active"

pureVars == << pGoal, pKeywords, pTheme, pPc, pQueries, pText, pScore >>
engineVars == << calls, apiCache, cacheExpiry, now, shown, lastFind, made, failures >>
uiVars == << props, guidance, loading, loadingMore, captured, awaiting >>
dashVars == << storage, goals, queued, phase, pass, strict, clock, editingGoal,
              selectedGoal, newlyCreatedGoalId, guidanceGoalId, showGuidance, removed >>
swVars == << swCaches, swEvent, swPhase >>
pageVars == << dashVars, swVars >>
vars == << pureVars, engineVars, uiVars, pageVars >>

---------------------------------------------------------------------------
(* Strings *)

Char(s, i) == SubSeq(s, i, i)

UpperChars == "ABCDEFGHIJKLMNOPQRSTUVWXYZ"
LowerChars == "abcdefghijklmnopqrstuvwxyz"
DigitChars == "0123456789_"

\* String.prototype.includes
Includes(s, t) == \E i \in 0..(Len(s) - Len(t)) : SubSeq(s, i + 1, i + Len(t)) = t

\* the lower-case letter of each upper-case letter
LowerOf ==
    [ A |-> "a", B |-> "b", C |-> "c", D |-> "d", E |-> "e", F |-> "f", G |-> "g",
      H |-> "h", I |-> "i", J |-> "j", K |-> "k", L |-> "l", M |-> "m", N |-> "n",
      O |-> "o", P |-> "p", Q |-> "q", R |-> "r", S |-> "s", T |-> "t", U |-> "u",
      V |-> "v", W |-> "w", X |-> "x", Y |-> "y", Z |-> "z" ]

LowerChar(c) == IF c \in DOMAIN LowerOf THEN LowerOf[c] ELSE c

RECURSIVE ToLowerRange(_, _, _)
ToLowerRange(s, lo, hi) ==
    IF lo > hi THEN ""
    ELSE IF lo = hi THEN LowerChar(Char(s, lo))
    ELSE ToLowerRange(s, lo, (lo + hi) \div 2) \o ToLowerRange(s, (lo + hi) \div 2 + 1, hi)

\* String.prototype.toLowerCase
ToLowerCase(s) == ToLowerRange(s, 1, Len(s))

\* the class \s of the split in extractKeywords
IsSpace(c) == c \in {" ", "\t", "\n", "\r"}

\* the class \w of the replace in extractKeywords: [A-Za-z0-9_]
WordChars ==
    { Char(UpperChars \o LowerChars \o DigitChars, i) :
        i \in 1..(Len(UpperChars) + Len(LowerChars) + Len(DigitChars)) }

IsWordChar(c) == c \in WordChars

\* the first index from i on whose character is (space = TRUE) or is not
\* (space = FALSE) a space, Len(s) + 1 when there is none
NextAt(s, i, space) ==
    CHOOSE j \in i..(Len(s) + 1) :
        /\ j = Len(s) + 1 \/ IsSpace(Char(s, j)) = space
        /\ \A k \in i..(j - 1) : IsSpace(Char(s, k)) # space

RECURSIVE WordsFrom(_, _)
\* the maximal runs of non-space characters from index i on
WordsFrom(s, i) ==
    LET start == NextAt(s, i, FALSE)
        end   == NextAt(s, start, TRUE)
    IN  IF start > Len(s) THEN << >>
        ELSE << SubSeq(s, start, end - 1) >> \o WordsFrom(s, end)

\* text.split(/\s+/): the maximal runs of non-space characters, with an empty
\* string before a leading and after a trailing run of spaces
SplitWhitespace(s) ==
    LET lead  == IF Len(s) = 0 \/ IsSpace(Char(s, 1)) THEN << "" >> ELSE << >>
        trail == IF Len(s) > 0 /\ IsSpace(Char(s, Len(s))) THEN << "" >> ELSE << >>
    IN  lead \o WordsFrom(s, 1) \o trail

RECURSIVE StripRange(_, _, _)
StripRange(s, lo, hi) ==
    IF lo > hi THEN ""
    ELSE IF lo = hi THEN (IF IsWordChar(Char(s, lo)) THEN Char(s, lo) ELSE "")
    ELSE StripRange(s, lo, (lo + hi) \div 2) \o StripRange(s, (lo + hi) \div 2 + 1, hi)

\* word.replace(/[^\w]/g, '')
StripNonWord(s) == StripRange(s, 1, Len(s))

\* String.prototype.trim
Trim(s) ==
    LET inked == { i \in 1..Len(s) : ~IsSpace(Char(s, i)) }
    IN  IF inked = {} THEN ""
        ELSE SubSeq(s, CHOOSE i \in inked : \A j \in inked : i <= j,
                       CHOOSE i \in inked : \A j \in inked : j <= i)

\* the sequence q and the function f with their elements evaluated once, not
\* at each use
Eager(q) == q \o << >>

EagerMap(f) == f @@ << >>

SeqToSet(q) == { q[i] : i \in 1..Len(q) }

---------------------------------------------------------------------------
(* Tables of the engine *)

PRACTICAL_GUIDANCE ==
  [ patience |->
        << "Make dua during difficult times: 'Rabbana afrigh 'alayna sabran' (Our Lord, pour upon us patience)",
           "Practice the 3-breath technique when feeling impatient",
           "Remember that every difficulty is temporary and has wisdom",
           "Read stories of Prophet Ayub (Job) for inspiration",
           "Set realistic timelines for your goals" >>,
    prayer |->
        << "Set 5 phone reminders for daily prayers",
           "Prepare a clean prayer space in your home",
           "Learn the meanings of Surah Al-Fatiha",
           "Make dua in your own language after each prayer",
           "Join congregation prayers when possible" >>,
    health |->
        << "Remember your body is an amanah (trust) from Allah",
           "Make dua before physical activities: 'Allahumma a'inni wa la tu'in 'alayya' (O Allah, help me and do not help others against me)",
           "Exercise with the intention of strengthening yourself for worship",
           "Maintain moderation in all physical activities",
           "Thank Allah for the strength and ability He has given you",
           "Use fitness time for dhikr (remembrance of Allah)",
           "Remember the Prophet's * emphasis on physical strength and health" >>,
    fitness |->
        << "Set consistent workout schedules as discipline for the soul",
           "Use gym time for reflection and gratitude",
           "Remember that physical strength helps in serving Allah better",
           "Practice moderation - avoid obsession with appearance",
           "Make intention to be strong for your family and community",
           "Include walking or movement as Sunnah practices",
           "Thank Allah for your body's capabilities after each workout" >>,
    strength |->
        << "Seek both physical and spiritual strength from Allah",
           "Remember: 'The strong believer is better than the weak believer'",
           "Use physical training to build mental resilience",
           "Combine physical exercise with spiritual exercises (prayer, dhikr)",
           "Help others using your physical capabilities",
           "Maintain humility despite gaining strength",
           "Use strength to protect and serve, not to show off" >>,
    change |->
        << "Start with one small habit change this week",
           "Make du'a: 'Rabbana atina fi'd-dunya hasanatan' (Our Lord, give us good in this world)",
           "Write down 3 specific steps toward your goal",
           "Find an accountability partner in your community",
           "Celebrate small victories along the way" >>,
    family |->
        << "Schedule weekly family time without devices",
           "Teach children one new Islamic value each month",
           "Practice forgiveness and patience with family members",
           "Make family du'a together before meals",
           "Share stories of the Prophet's family life" >>,
    anxiety |->
        << "Recite Ayat al-Kursi when feeling anxious",
           "Practice deep breathing with 'La hawla wa la quwwata illa billah'",
           "Maintain regular prayer times for structure",
           "Seek support from trusted friends or counselors",
           "Remember that Allah does not burden a soul beyond its capacity" >>,
    success |->
        << "Begin every endeavor with 'Bismillah'",
           "Set intentions (niyyah) aligned with Islamic values",
           "Balance worldly goals with spiritual growth",
           "Give charity (sadaqah) as you progress",
           "Remember success comes from Allah alone" >> ]

ThemeOrder == << "patience", "prayer", "health", "fitness", "strength", "change", "family", "anxiety", "success" >>

keywordMapping ==
  [ fitness |->
        { "fitness", "gym", "exercise", "workout", "training", "sport", "muscle", "cardio", 
          "strength", "physical", "body", "run", "running", "jog", "jogging", "walk", 
          "walking", "swim", "swimming", "bike", "cycling", "lift", "lifting", "weight", 
          "weights", "aerobics", "yoga", "pilates", "dance", "dancing", "martial", "arts", 
          "boxing", "kickboxing", "crossfit", "hiit", "treadmill", "elliptical", "stairmaster", 
          "rowing", "squat", "deadlift", "bench", "pushup", "pullup", "plank", "burpee", 
          "jumping", "jacks", "mountain", "climber", "lunge", "crunch", "situp" },
    health |->
        { "health", "wellness", "medical", "care", "healing", "recovery", "nutrition", "diet", 
          "food", "eating", "meal", "vitamin", "supplement", "medicine", "doctor", "hospital", 
          "clinic", "therapy", "treatment", "surgery", "mental", "psychology", "counseling", 
          "meditation", "mindfulness", "sleep", "rest", "relaxation", "stress", "management", 
          "hygiene", "clean", "sanitize", "vaccine", "immunization", "prevention", "screening" },
    strength |->
        { "strong", "strength", "power", "powerful", "force", "endurance", "mighty", "robust", 
          "sturdy", "tough", "resilient", "unyielding", "steadfast", "firm", "solid", 
          "unbreakable", "indomitable", "invincible", "unconquerable", "strive", "striving", 
          "effort", "persevere", "perseverance", "persist", "persistent" },
    prayer |->
        { "pray", "prayer", "salah", "salat", "worship", "dua", "dhikr", "mosque", "qibla", 
          "adhan", "azan", "iqama", "rakah", "rakat", "sujud", "ruku", "qiyam", "jalsa", 
          "tashahhud", "tasleem", "fatiha", "ayat", "verse", "recitation", "tilawah", "quran", 
          "koran", "surah", "ayah", "juz", "hizb", "masjid", "musalla", "mihrab", "minbar", 
          "minaret", "wudu", "ablution", "ghusl", "tayammum", "direction", "kaaba", "makkah" },
    patience |->
        { "patient", "patience", "wait", "waiting", "endure", "endurance", "persevere", 
          "perseverance", "difficult", "hardship", "trial", "test", "challenge", "struggle", 
          "suffer", "suffering", "tolerate", "tolerance", "forbear", "forbearance", 
          "steadfast", "steadfastness", "resilient", "resilience", "persistent", "persistence", 
          "determined", "determination", "tenacious", "tenacity", "unwavering", "unshakeable", 
          "unmovable" },
    family |->
        { "family", "parent", "child", "children", "marriage", "spouse", "relationship", 
          "home", "household", "mother", "father", "son", "daughter", "brother", "sister", 
          "grandparent", "grandfather", "grandmother", "uncle", "aunt", "cousin", "niece", 
          "nephew", "husband", "wife", "partner", "inlaw", "domestic", "house", "residence", 
          "dwelling", "abode", "nest", "hearth" },
    anxiety |->
        { "anxious", "anxiety", "worry", "worried", "stress", "stressed", "fear", "fearful", 
          "nervous", "panic", "overwhelmed", "overwhelming", "afraid", "scared", "terrified", 
          "frightened", "alarmed", "distressed", "troubled", "concerned", "uneasy", 
          "uncomfortable", "restless", "agitated", "jittery", "tense", "apprehensive", "dread", 
          "dreadful", "horror", "horrified", "shocked", "shocking", "startled" },
    success |->
        { "achieve", "achievement", "goal", "accomplish", "accomplishment", "succeed", 
          "success", "victory", "win", "winning", "progress", "advance", "advancement", 
          "improve", "improvement", "excel", "excellence", "outperform", "outstanding", 
          "exceptional", "remarkable", "notable", "distinguished", "eminent", "prominent", 
          "prestigious", "honorable", "respectable", "admirable", "commendable", 
          "praiseworthy" },
    change |->
        { "change", "changing", "improve", "improvement", "transform", "transformation", 
          "better", "betterment", "habit", "habits", "different", "difference", "new", "renew", 
          "renewal", "modify", "modification", "alter", "alteration", "adjust", "adjustment", 
          "adapt", "adaptation", "evolve", "evolution", "develop", "development", "grow", 
          "growth", "mature", "maturity", "progress", "progression" } ]

reflectionTemplates ==
  [ patience |->
        << "This verse reminds us that patience is not just waiting, but maintaining faith during challenges.",
           "True patience involves trusting Allah's timing while continuing to make effort.",
           "Every test is an opportunity to grow closer to Allah and strengthen our character." >>,
    prayer |->
        << "Prayer is our direct connection to Allah, offering guidance and peace in all situations.",
           "This verse emphasizes that consistent worship transforms our hearts and daily actions.",
           "Through prayer, we align our will with Allah's guidance and find purpose in our days." >>,
    change |->
        << "Personal transformation begins with sincere intention and trust in Allah's support.",
           "This verse teaches us that positive change requires both effort and reliance on Allah.",
           "Growth happens gradually - each small step taken with faith leads to lasting transformation." >>,
    guidance |->
        << "Divine guidance illuminates our path when we sincerely seek Allah's direction.",
           "This verse reminds us that true wisdom comes from following Islamic teachings.",
           "Guidance is available to all who approach Allah with humility and openness to learn." >>,
    fitness |->
        << "Islam teaches us to care for our bodies as a trust (amanah) from Allah. This verse reminds us that striving and effort are valued in Islam - whether spiritual or physical.",
           "Physical strength enables us to better serve Allah, our families, and our communities. This verse encourages perseverance in all beneficial efforts.",
           "The Prophet * said 'The strong believer is better than the weak believer.' This verse guides us to pursue strength with the right intention - to serve Allah better." >>,
    strength |->
        << "True strength comes from both physical capability and spiritual fortitude. This verse reminds us to seek strength through faith and effort.",
           "Building strength - whether of body, character, or faith - requires consistent effort and reliance on Allah's help.",
           "Physical strength is a blessing that enables us to fulfill our duties better. This verse encourages us to strive with gratitude." >>,
    health |->
        << "Our health is a precious gift from Allah, and maintaining it is part of our worship. This verse reminds us of Allah's care and mercy.",
           "Taking care of our health allows us to worship Allah better and serve others. This verse encourages mindful living.",
           "Islam emphasizes preventive care and balance. This verse guides us to approach health with gratitude and trust in Allah." >> ]

semanticMap ==
  [ fitness |->
        << "strength",
           "power",
           "ability",
           "body",
           "strive",
           "effort" >>,
    health |->
        << "healing",
           "cure",
           "wellness",
           "body",
           "care",
           "blessing" >>,
    prayer |->
        << "worship",
           "salah",
           "remembrance",
           "dhikr",
           "establish" >>,
    family |->
        << "children",
           "parents",
           "mercy",
           "compassion",
           "love" >>,
    success |->
        << "achievement",
           "blessing",
           "prosper",
           "victory",
           "triumph" >>,
    patience |->
        << "endure",
           "persevere",
           "steadfast",
           "resilient" >>,
    study |->
        << "knowledge",
           "wisdom",
           "learn",
           "understand",
           "reflect" >>,
    work |->
        << "effort",
           "strive",
           "provision",
           "sustenance",
           "blessing" >> ]


\* the themes in the order Object.keys(PRACTICAL_GUIDANCE) enumerates them
Themes == SeqToSet(ThemeOrder)

HasGuidance(theme) == theme \in DOMAIN PRACTICAL_GUIDANCE

\* tk.toLowerCase() for every guidance string, computed once
PracticalGuidanceLower ==
    EagerMap([ t \in Themes |->
        Eager([ i \in 1..Len(PRACTICAL_GUIDANCE[t]) |-> ToLowerCase(PRACTICAL_GUIDANCE[t][i]) ]) ])

---------------------------------------------------------------------------
(* Keyword Extractor and Theme Classifier *)

LongerThanTwo(word) == Len(word) > 2

ExtractKeywords(text) ==
    LET kept == SelectSeq(SplitWhitespace(ToLowerCase(text)), LongerThanTwo)
    IN  Eager([ i \in 1..Len(kept) |-> StripNonWord(kept[i]) ])

\* the score of a theme from the synonym matches alone
ThemeScore2SynonymsOnly(theme, keywords) ==
    2 * Cardinality({ i \in 1..Len(keywords) : keywords[i] \in keywordMapping[theme] })

\* twice themeScores[theme] after the loop over the keywords
ThemeScore2(theme, keywords) ==
    LET syn == { i \in 1..Len(keywords) : keywords[i] \in keywordMapping[theme] }
        dir == { i \in 1..Len(keywords) :
                   \E k \in 1..Len(PracticalGuidanceLower[theme]) :
                       Includes(PracticalGuidanceLower[theme][k], keywords[i]) }
    IN  2 * Cardinality(syn) + Cardinality(dir)

\* the classifier with the last of the themes that share the highest score
DetermineThemeLastOnTie(keywords) ==
    LET score == [ i \in 1..Len(ThemeOrder) |-> ThemeScore2(ThemeOrder[i], keywords) ]
        positive == { i \in 1..Len(ThemeOrder) : score[i] > 0 }
        top == CHOOSE i \in positive :
                  \A j \in positive : score[j] < score[i] \/ (score[j] = score[i] /\ j <= i)
    IN  IF positive = {} THEN "guidance" ELSE ThemeOrder[top]

DetermineTheme(keywords) ==
    LET score == [ i \in 1..Len(ThemeOrder) |-> ThemeScore2(ThemeOrder[i], keywords) ]
        positive == { i \in 1..Len(ThemeOrder) : score[i] > 0 }
        \* the first entry of the stable descending sort
        top == CHOOSE i \in positive :
                  \A j \in positive : score[j] < score[i] \/ (score[j] = score[i] /\ i <= j)
    IN  IF positive = {} THEN "guidance" ELSE ThemeOrder[top]

---------------------------------------------------------------------------
(* Sequence helpers *)

Min(a, b) == IF a <= b THEN a ELSE b
Max(a, b) == IF a >= b THEN a ELSE b

\* Array.prototype.slice(from, to) with 0-based, end-exclusive indices
Slice(q, from, to) == SubSeq(q, from + 1, Min(to, Len(q)))

RECURSIVE Join(_, _)
\* Array.prototype.join
Join(q, sep) ==
    IF Len(q) = 0 THEN ""
    ELSE IF Len(q) = 1 THEN q[1]
    ELSE q[1] \o sep \o Join(Tail(q), sep)

\* s.split(' '): the segments between single spaces, empty ones included
SplitSpace(s) ==
    LET seps == { i \in 1..Len(s) : Char(s, i) = " " }
        SepAt(k) == IF k = 0 THEN 0
                    ELSE IF k > Cardinality(seps) THEN Len(s) + 1
                    ELSE CHOOSE i \in seps : Cardinality({ j \in seps : j <= i }) = k
    IN  [ k \in 1..(Cardinality(seps) + 1) |-> SubSeq(s, SepAt(k - 1) + 1, SepAt(k) - 1) ]

RECURSIVE Dedupe(_)
\* Array.from(new Set(q)): first occurrences, in order
Dedupe(q) ==
    IF Len(q) = 0 THEN << >>
    ELSE LET front == Dedupe(SubSeq(q, 1, Len(q) - 1))
         IN  IF q[Len(q)] \in SeqToSet(front) THEN front ELSE Append(front, q[Len(q)])

---------------------------------------------------------------------------
(* Query Builder *)

getThemeSearchTermsTable ==
    [ patience |-> "patience perseverance endurance",
      prayer   |-> "prayer worship remembrance establish prayer salah salat",
      change   |-> "change transformation growth",
      family   |-> "family children parents",
      anxiety  |-> "peace comfort trust",
      success  |-> "success achievement blessing",
      health   |-> "body strength health care trust",
      fitness  |-> "strength power ability body",
      strength |-> "strong power force mighty" ]

GetThemeSearchTerms(theme) ==
    IF theme \in DOMAIN getThemeSearchTermsTable
    THEN getThemeSearchTermsTable[theme] ELSE "guidance wisdom"

AnyIncluded(text, parts) == \E p \in parts : Includes(text, p)

GetGoalSpecificTerms(goal, theme) ==
    LET goalLower == ToLowerCase(goal)
    IN  IF theme = "fitness" \/ theme = "strength"
           \/ AnyIncluded(goalLower, {"fitness", "exercise", "workout", "gym", "train"})
        THEN "strive effort persevere strong strength"
        ELSE IF theme = "health" \/ AnyIncluded(goalLower, {"health", "wellness", "heal"})
        THEN "cure healing bless good mercy"
        ELSE IF theme = "prayer" \/ AnyIncluded(goalLower, {"pray", "worship", "salah"})
        THEN "prayer worship establish salah remember"
        ELSE IF theme = "success" \/ AnyIncluded(goalLower, {"success", "achieve", "accomplish"})
        THEN "success prosper triumph victory believer"
        ELSE IF theme = "family" \/ AnyIncluded(goalLower, {"family", "parent", "child", "spouse"})
        THEN "parents children family righteous mercy"
        ELSE IF theme = "patience" \/ AnyIncluded(goalLower, {"patience", "wait", "persever"})
        THEN "patient patience persever endure steadfast"
        ELSE IF AnyIncluded(goalLower, {"study", "learn", "read", "knowledge"})
        THEN "knowledge wisdom understand learn reflect"
        ELSE IF AnyIncluded(goalLower, {"work", "career", "job", "business"})
        THEN "work strive effort provision sustenance"
        ELSE IF AnyIncluded(goalLower, {"relationship", "friend", "love", "kindness"})
        THEN "mercy compassion love kindness righteous"
        ELSE IF AnyIncluded(goalLower, {"change", "improve", "better", "transform"})
        THEN "change believe good righteous repent"
        ELSE ""

StopWords ==
    { "the", "and", "or", "but", "in", "on", "at", "to", "for", "of", "with", "by", "do",
      "get", "make", "have", "be", "is", "are", "was", "were", "will", "would", "could",
      "should", "can", "may", "might", "must", "shall", "a", "an" }

NotStopWord(word) == word \notin StopWords

guidanceVariations ==
    << "guidance wisdom help", "guidance success", "guidance strength", "guidance patience",
       "guidance prayer", "guidance family", "guidance health", "guidance believer",
       "guidance righteous", "guidance mercy" >>

\* Math.floor(Math.random() * n), Math.random() being tenths / 10
\* the values Math.random() takes, in tenths
RandomTenths == { 0, 7 }

RandomIndex(tenths, n) == (tenths * n) \div 10

\* each leading key word followed by the key word with the theme
WordQueries(words, theme) ==
    IF Len(words) = 0 THEN << >>
    ELSE LET Pair(w) == << w, w \o " " \o theme >>
         IN  Pair(words[1])
               \o (IF Len(words) >= 2 THEN Pair(words[2]) ELSE << >>)
               \o (IF Len(words) >= 3 THEN Pair(words[3]) ELSE << >>)

CategoryQueries(theme) ==
    IF theme = "fitness" \/ theme = "health"
    THEN << "body strength health care trust", "strive effort persevere" >>
    ELSE IF theme = "prayer"
    THEN << "prayer worship establish salah", "remembrance dhikr" >>
    ELSE IF theme = "family"
    THEN << "family children parents", "mercy compassion love" >>
    ELSE IF theme = "success"
    THEN << "success achievement blessing", "prosper triumph victory" >>
    ELSE << >>

NonBlank(q) == q # "" /\ Len(Trim(q)) > 0

\* the array queries before the blank and the repeated strings are removed
CandidateQueries(goal, keywords, theme, tenths) ==
    LET keyWords == SelectSeq(keywords, NotStopWord)
        fromWords ==
            IF Len(keyWords) > 0
            THEN << Join(Slice(keyWords, 0, 4), " "),
                    Join(Slice(keyWords, 0, 3), " "),
                    Join(Slice(keyWords, 0, 2), " "),
                    Join(Slice(keyWords, 0, 3), " ") \o " " \o theme,
                    Join(Slice(keyWords, 0, 2), " ") \o " " \o theme >>
                 \o WordQueries(Slice(keyWords, 0, 3), theme)
            ELSE << >>
        themeTerms == GetThemeSearchTerms(theme)
        individualTerms == Slice(SplitSpace(themeTerms), 0, 3)
        fromTheme ==
            IF themeTerms # "" /\ themeTerms # "guidance wisdom"
            THEN << themeTerms, Join(individualTerms, " ") >> \o individualTerms
            ELSE << >>
        goalSpecificTerms == GetGoalSpecificTerms(goal, theme)
        individualGoalTerms == Slice(SplitSpace(goalSpecificTerms), 0, 3)
        fromGoal ==
            IF goalSpecificTerms # ""
            THEN << goalSpecificTerms, Join(individualGoalTerms, " ") >> \o individualGoalTerms
            ELSE << >>
        randomGuidance == guidanceVariations[RandomIndex(tenths, Len(guidanceVariations)) + 1]
    IN  << goal >> \o fromWords \o fromTheme \o fromGoal
          \o << randomGuidance >> \o CategoryQueries(theme)

\* the candidates kept with their blank strings and with every string once
BuildSearchQueriesUnfiltered(goal, keywords, theme, tenths) ==
    CandidateQueries(goal, keywords, theme, tenths)

BuildSearchQueries(goal, keywords, theme, tenths) ==
    Dedupe(SelectSeq(CandidateQueries(goal, keywords, theme, tenths), NonBlank))

\* this.extractKeywords(goal)
KeywordsOf(goal) == ExtractKeywords(goal)

\* this.determineTheme(this.extractKeywords(goal))
ThemeOf(goal) == DetermineTheme(ExtractKeywords(goal))

---------------------------------------------------------------------------
(* Relevance Scorer *)

\* the names semanticMap[goalWord] finds on Object.prototype: the value found is
\* not iterable and the for-of loop over it raises a TypeError
ObjectPrototypeNames == { "constructor", "__proto__" }

CalculateSemanticMatchesRaises(goalWords) ==
    \E i \in 1..Len(goalWords) : goalWords[i] \in ObjectPrototypeNames

CalculateSemanticMatches(goalWords, verseWords) ==
    Cardinality({ i \in 1..Len(goalWords) :
        /\ goalWords[i] \in DOMAIN semanticMap
        /\ \E k \in 1..Len(semanticMap[goalWords[i]]) : \E j \in 1..Len(verseWords) :
              \/ Includes(verseWords[j], semanticMap[goalWords[i]][k])
              \/ Includes(semanticMap[goalWords[i]][k], verseWords[j]) })

\* the score with 0.7 given to every partial match, the exact ones included
ScoreOfWordsPartialUnreduced(goalWords, verseWords) ==
    LET exactMatches == { i \in 1..Len(goalWords) :
                            \E j \in 1..Len(verseWords) : verseWords[j] = goalWords[i] }
        partialMatches == { i \in 1..Len(goalWords) :
                              \E j \in 1..Len(verseWords) :
                                  \/ Includes(verseWords[j], goalWords[i])
                                  \/ Includes(goalWords[i], verseWords[j]) }
        tenths == 10 * Cardinality(exactMatches) + 7 * Cardinality(partialMatches)
                    + 5 * CalculateSemanticMatches(goalWords, verseWords)
        den == Max(Len(goalWords), 1)
    IN  [ units |-> Min(95 * den, 10 * tenths), den |-> den ]

\* the score as the pair (units, den): the value is units / (100 * den), where
\* den is max(maxPossibleScore, 1) and units is already capped at 0.95
ScoreOfWords(goalWords, verseWords) ==
    LET exactMatches == { i \in 1..Len(goalWords) :
                            \E j \in 1..Len(verseWords) : verseWords[j] = goalWords[i] }
        partialMatches == { i \in 1..Len(goalWords) :
                              \E j \in 1..Len(verseWords) :
                                  \/ Includes(verseWords[j], goalWords[i])
                                  \/ Includes(goalWords[i], verseWords[j]) }
        semanticMatches == CalculateSemanticMatches(goalWords, verseWords)
        tenths == 10 * Cardinality(exactMatches)
                    + 7 * (Cardinality(partialMatches) - Cardinality(exactMatches))
                    + 5 * semanticMatches
        den == Max(Len(goalWords), 1)
    IN  [ units |-> Min(95 * den, 10 * tenths), den |-> den ]

\* calculateRelevanceScore(goal, verse): goalWords are the keywords of the goal
\* and verseWords those of verse.text_en + ' ' + verse.reflection
CalculateRelevanceScore(goal, text_en, reflection) ==
    ScoreOfWords(KeywordsOf(goal), ExtractKeywords(text_en \o " " \o reflection))

CalculateRelevanceScoreRaises(goal) == CalculateSemanticMatchesRaises(KeywordsOf(goal))

\* a.relevanceScore > b.relevanceScore
ScoreGreater(a, b) == a.units * b.den > b.units * a.den

---------------------------------------------------------------------------
(* Result Assembler: the pure parts *)

\* PRACTICAL_GUIDANCE[theme] || PRACTICAL_GUIDANCE.guidance is undefined for a theme
\* without an entry, PRACTICAL_GUIDANCE having no entry "guidance": slice raises
GeneratePracticalStepsRaises(theme) == ~HasGuidance(theme) /\ ~HasGuidance("guidance")

GeneratePracticalSteps(theme, goal) ==
    LET baseSteps == IF HasGuidance(theme) THEN PRACTICAL_GUIDANCE[theme]
                     ELSE PRACTICAL_GUIDANCE["guidance"]
    IN  Slice(baseSteps, 0, 2)
          \o << "Set a specific timeline for: " \o goal,
                "Make daily du'a for success in: " \o goal,
                "Break down \"" \o goal \o "\" into smaller, manageable tasks" >>

---------------------------------------------------------------------------
(* Remote Verse Source.  The client module quran-api is not among the      *)
(* sources; it is modelled from its contract: a search returns a list of   *)
(* raw matches with unique numbers or fails, a lookup by coordinates       *)
(* returns the verse at these coordinates or fails.  A raw match carries   *)
(* its number in the whole text, its number in its surah and a translation.*)

\* the number of verses before the first verse of each of the 114 surahs
SurahOffset ==
    << 0, 7, 293, 493, 669, 789, 954, 1160, 1235, 1364, 1473, 1596,
       1707, 1750, 1802, 1901, 2029, 2140, 2250, 2348, 2483, 2595, 2673, 2791,
       2855, 2932, 3159, 3252, 3340, 3409, 3469, 3503, 3533, 3606, 3660, 3705,
       3788, 3970, 4058, 4133, 4218, 4272, 4325, 4414, 4473, 4510, 4545, 4583,
       4612, 4630, 4675, 4735, 4784, 4846, 4901, 4979, 5075, 5104, 5126, 5150,
       5163, 5177, 5188, 5199, 5217, 5229, 5241, 5271, 5323, 5375, 5419, 5447,
       5475, 5495, 5551, 5591, 5622, 5672, 5712, 5758, 5800, 5829, 5848, 5884,
       5909, 5931, 5948, 5967, 5993, 6023, 6043, 6058, 6079, 6090, 6098, 6106,
       6125, 6130, 6138, 6146, 6157, 6168, 6176, 6179, 6188, 6193, 6197, 6204,
       6207, 6213, 6216, 6221, 6225, 6230 >>

VerseNumber(surah, ayah) == SurahOffset[surah] + ayah

KnownTranslations ==
    << << <<1, 5>>, "It is You we worship and You we ask for help" >>,
       << <<2, 5>>, "Those are upon guidance from their Lord" >>,
       << <<2, 153>>, "Seek help through patience and prayer. Allah is with the patient" >>,
       << <<2, 155>>, "Give good tidings to the patient" >>,
       << <<3, 200>>, "Persevere and endure and fear Allah that you may be successful" >>,
       << <<8, 46>>, "And be patient. Indeed, Allah is with the patient" >>,
       << <<13, 11>>, "Allah will not change the condition of a people until they change themselves" >>,
       << <<94, 5>>, "For indeed, with hardship will be ease" >> >>

TranslationOf(surah, ayah) ==
    IF \E i \in 1..Len(KnownTranslations) : KnownTranslations[i][1] = << surah, ayah >>
    THEN KnownTranslations[CHOOSE i \in 1..Len(KnownTranslations) :
                               KnownTranslations[i][1] = << surah, ayah >>][2]
    ELSE "And Allah is Knowing and Wise"

\* quranAPI.getVerse(surah, ayah), when it succeeds
GetVerse(surah, ayah) ==
    [ number |-> VerseNumber(surah, ayah), numberInSurah |-> ayah,
      translation |-> TranslationOf(surah, ayah) ]

\* quranAPI.getSurah(surah), when it succeeds
GetSurah(surah) == [ number |-> surah ]

\* what quranAPI.searchVerses may return for a query made of goal words
SearchAnswers ==
    { << >>,
      << GetVerse(1, 5), GetVerse(2, 155) >>,
      << GetVerse(2, 153), GetVerse(2, 155), GetVerse(3, 200), GetVerse(8, 46), GetVerse(103, 3) >> }

\* what quranAPI.searchVerses may return for the search terms of a theme
ThemeAnswers ==
    { << >>, << GetVerse(1, 5), GetVerse(2, 5) >> }

\* what quranAPI.getRandomVerse may return: the verse, its surah and a theme or none
RandomAnswers ==
    { [ verse |-> GetVerse(2, 153), surah |-> GetSurah(2), theme |-> "patience" ],
      [ verse |-> GetVerse(94, 5), surah |-> GetSurah(94), theme |-> "" ] }


\* refs.sort(() => Math.random() - 0.5) leaves the list in an order the random
\* comparator decides: the list rotated by one of these offsets
ShuffleOffsets == { 0, 4 }

Rotate(q, k) == [ i \in 1..Len(q) |-> q[((i - 1 + k) % Len(q)) + 1] ]

themeVerses ==
  [ prayer |->
        << <<2, 43>>, <<11, 114>>, <<29, 45>>, <<4, 103>>, <<17, 78>>,
           <<20, 14>>, <<2, 238>>, <<31, 17>>, <<70, 23>>, <<87, 15>> >>,
    patience |->
        << <<2, 153>>, <<2, 155>>, <<3, 200>>, <<8, 46>>, <<103, 3>>,
           <<2, 177>>, <<3, 186>>, <<16, 127>>, <<39, 10>>, <<47, 31>> >>,
    success |->
        << <<2, 201>>, <<3, 200>>, <<65, 3>>, <<94, 5>>, <<13, 11>>,
           <<2, 286>>, <<3, 139>>, <<8, 45>>, <<9, 40>>, <<48, 29>> >>,
    change |->
        << <<13, 11>>, <<2, 286>>, <<65, 3>>, <<94, 5>>, <<2, 216>>,
           <<3, 159>>, <<4, 29>>, <<7, 96>>, <<8, 53>>, <<35, 11>> >>,
    family |->
        << <<4, 1>>, <<17, 23>>, <<25, 74>>, <<30, 21>>, <<66, 6>>,
           <<2, 187>>, <<4, 19>>, <<4, 36>>, <<6, 151>>, <<17, 24>> >>,
    health |->
        << <<26, 80>>, <<17, 82>>, <<7, 31>>, <<2, 195>>, <<16, 69>>,
           <<2, 168>>, <<5, 88>>, <<2, 286>>, <<65, 3>>, <<94, 5>> >>,
    fitness |->
        << <<22, 78>>, <<29, 69>>, <<3, 139>>, <<2, 195>>, <<8, 46>>,
           <<94, 5>>, <<2, 286>>, <<103, 3>>, <<65, 3>>, <<13, 11>> >>,
    anxiety |->
        << <<2, 286>>, <<13, 28>>, <<65, 3>>, <<94, 5>>, <<113, 1>>,
           <<2, 255>>, <<3, 8>>, <<7, 200>>, <<16, 98>>, <<41, 44>> >> ]
---------------------------------------------------------------------------
(* Passage conversion *)

GenerateReflection(theme, tenths) ==
    LET templates == IF theme \in DOMAIN reflectionTemplates
                     THEN reflectionTemplates[theme] ELSE reflectionTemplates["guidance"]
    IN  templates[RandomIndex(tenths, Len(templates)) + 1]

\* The QuranVerse built from a raw verse; theme "" stands for no theme given.
\* Only the fields an operation of the model reads are kept.
ConvertAPIVerseToQuranVerse(verse, surahNumber, theme, tenths) ==
    LET tag == IF theme # "" THEN theme ELSE "guidance"
    IN  [ id |-> verse.number,
          surah_number |-> surahNumber,
          ayah |-> verse.numberInSurah,
          text_en |-> verse.translation,
          theme |-> tag,
          reflection |-> GenerateReflection(tag, tenths) ]

\* Math.floor(apiVerse.number / 1000) + 1, the surah the engine gives a search result
ApproximateSurah(number) == (number \div 1000) + 1

ConvertSearchResult(apiVerse, theme, tenths) ==
    ConvertAPIVerseToQuranVerse(apiVerse, ApproximateSurah(apiVerse.number), theme, tenths)

\* the conversion of a curated reference with the surah number approximated
\* from the verse number, as for a search result
ConvertCuratedApproximated(verse, surah, theme, tenths) ==
    ConvertAPIVerseToQuranVerse(verse, ApproximateSurah(verse.number), theme, tenths)

\* the conversion of a curated reference from the verse and the surah fetched for it
ConvertCurated(verse, surah, theme, tenths) ==
    ConvertAPIVerseToQuranVerse(verse, surah.number, theme, tenths)

getFallbackVerse ==
    [ id |-> 2255, surah_number |-> 2, ayah |-> 255,
      text_en |-> "Allah - there is no deity except Him, the Ever-Living, the Sustainer of existence.",
      theme |-> "faith",
      reflection |-> "This powerful verse reminds us that Allah is always present and in control, providing strength and comfort in all situations." ]

---------------------------------------------------------------------------
(* Result Assembler: ranking and wrapping *)

FindThreshold == 5
MoreThreshold == 10
InitialWindow == 1
MoreWindow == 3
FallbackWindow == 2
CollectionLimit == 5
CuratedLimit == 3

\* the merge without the removal of repeated numbers
KeepRepeatedNumbers(arr) == arr

RECURSIVE DistinctByNumber(_)
DistinctByNumber(arr) ==
    IF Len(arr) = 0 THEN << >>
    ELSE LET front == DistinctByNumber(SubSeq(arr, 1, Len(arr) - 1))
             last  == arr[Len(arr)]
         IN  IF \E i \in 1..Len(front) : front[i].number = last.number
             THEN front ELSE Append(front, last)

\* Array.prototype.sort with the comparator b.score - a.score: descending by
\* score, records of equal score in their input order
StableSortDescending(items, score) ==
    LET Place(i) == 1 + Cardinality({ j \in 1..Len(items) : ScoreGreater(score[j], score[i]) })
                      + Cardinality({ j \in 1..(i - 1) : ~ScoreGreater(score[j], score[i])
                                                         /\ ~ScoreGreater(score[i], score[j]) })
    IN  Eager([ k \in 1..Len(items) |-> items[CHOOSE i \in 1..Len(items) : Place(i) = k] ])

\* aggregated.map(score).sort((a, b) => b.relevanceScore - a.relevanceScore):
\* descending by the score of the translation alone, equal scores in input order
SortByRelevance(goal, aggregated) ==
    StableSortDescending(aggregated,
        Eager([ i \in 1..Len(aggregated) |->
                  CalculateRelevanceScore(goal, aggregated[i].translation, "") ]))

\* the GoalMatchResult with the score of the translation alone, as in the ranking
WrapMatchWithoutReflection(verse, theme, goal) ==
    [ verse |-> verse,
      relevanceScore |-> CalculateRelevanceScore(goal, verse.text_en, ""),
      practicalSteps |-> GeneratePracticalSteps(theme, goal) ]

\* one GoalMatchResult
WrapMatch(verse, theme, goal) ==
    [ verse |-> verse,
      relevanceScore |-> CalculateRelevanceScore(goal, verse.text_en, verse.reflection),
      practicalSteps |-> GeneratePracticalSteps(theme, goal) ]

WrapMatchRaises(theme, goal) ==
    CalculateRelevanceScoreRaises(goal) \/ GeneratePracticalStepsRaises(theme)

\* getThematicVersesForGoal without its try/catch: an exception of the
\* scorer or of generatePracticalSteps leaves the method
GetThematicVersesForGoalUncaught(coll, theme, goal) ==
    IF Len(coll) = 0 \/ Len(coll[1].verses) = 0
    THEN [ raised |-> FALSE, value |-> << >> ]
    ELSE IF WrapMatchRaises(theme, goal)
    THEN [ raised |-> TRUE, value |-> << >> ]
    ELSE [ raised |-> FALSE,
           value |-> Eager([ i \in 1..Min(FallbackWindow, Len(coll[1].verses)) |->
                               WrapMatch(coll[1].verses[i], theme, goal) ]) ]

\* getThematicVersesForGoal once getThematicCollection has answered with coll
\* (<< >> for null, << collection >> otherwise): what it returns, and whether
\* it raises instead
GetThematicVersesForGoal(coll, theme, goal) ==
    IF Len(coll) = 0 \/ Len(coll[1].verses) = 0
    THEN [ raised |-> FALSE, value |-> << >> ]
    ELSE IF WrapMatchRaises(theme, goal)
    THEN [ raised |-> FALSE, value |-> << >> ]   \* caught: return []
    ELSE [ raised |-> FALSE,
           value |-> Eager([ i \in 1..Min(FallbackWindow, Len(coll[1].verses)) |->
                               WrapMatch(coll[1].verses[i], theme, goal) ]) ]

AlternativeThemes == << "guidance", "success", "patience", "prayer" >>

\* the alternative themes the loop tries for a classified theme, in order
AlternativesFor(theme) ==
    LET keep == { i \in 1..Len(AlternativeThemes) : AlternativeThemes[i] # theme }
        Nth(k) == CHOOSE i \in keep : Cardinality({ j \in keep : j <= i }) = k
    IN  [ k \in 1..Cardinality(keep) |-> AlternativeThemes[Nth(k)] ]

---------------------------------------------------------------------------
(* Thematic Fallback Store and Cache *)

CACHE_DURATION == 5 * 60 * 1000

MaxTicks == 3

TickLength == CACHE_DURATION \div 2


\* themeVerses[theme] || themeVerses.success
CuratedRefs(theme) ==
    IF theme \in DOMAIN themeVerses THEN themeVerses[theme] ELSE themeVerses["success"]

CacheKey(theme) == "theme_" \o theme

UpperChar(c) ==
    IF \E i \in 1..Len(LowerChars) : Char(LowerChars, i) = c
    THEN Char(UpperChars, CHOOSE i \in 1..Len(LowerChars) : Char(LowerChars, i) = c)
    ELSE c

CapitalizeTheme(theme) ==
    IF Len(theme) = 0 THEN "" ELSE UpperChar(Char(theme, 1)) \o SubSeq(theme, 2, Len(theme))

\* The ThematicCollection; its description, guidance and actions are functions
\* of the theme alone and are not kept.
Collection(theme, verses) == [ theme |-> CapitalizeTheme(theme), verses |-> verses ]

\* a map that keeps the value it has for a key
PutIfAbsent(m, key, value) ==
    [ k \in (DOMAIN m) \cup { key } |-> IF k \in DOMAIN m THEN m[k] ELSE value ]

\* Map.set on a cache map
Put(m, key, value) == [ k \in (DOMAIN m) \cup { key } |-> IF k = key THEN value ELSE m[k] ]

EmptyMap == [ k \in {} |-> << >> ]

\* an entry that counts as valid at its expiry time too
IsCacheValidAtExpiry(expiry, key, t) ==
    IF key \in DOMAIN expiry /\ expiry[key] # 0 THEN t <= expiry[key] ELSE FALSE

\* isCacheValid(key) at time t
IsCacheValid(expiry, key, t) ==
    IF key \in DOMAIN expiry /\ expiry[key] # 0 THEN t < expiry[key] ELSE FALSE

---------------------------------------------------------------------------
(* Engine calls in flight.  A call is a record: its arguments, the local   *)
(* variables of the method, the remote call it is waiting for (pc), and    *)
(* history fields the properties read (trail, issued, allEmpty, ...).      *)

IdleCall ==
    [ kind |-> "none",        \* "find", "more", "thematic", "daily", "smart"
      status |-> "idle",      \* "idle", "running", "returned", "rejected"
      pc |-> "",              \* "query", "convert", "direct", "tc_search", "tc_fetch", "random"
      goal |-> "", count |-> 0, theme |-> "",
      random |-> 0,           \* what Math.random() gives during the call, in tenths
      queries |-> << >>, qi |-> 0, aggregated |-> << >>,
      alts |-> << >>,         \* alternative themes still to try
      ret |-> "",             \* where getThematicCollection returns to
      sorted |-> << >>,       \* sortedResults: the ranked window to convert
      tcTheme |-> "", refs |-> << >>, verses |-> << >>,
      result |-> << >>,       \* the value returned (a list; << >> for null)
      pending |-> << >>,      \* the remote calls the method has started and is awaiting
      stray |-> 0,            \* the remote calls started and no longer awaited, not settled yet
      trail |-> << >>,        \* history: resolution strategies invoked, in order
      issued |-> << >>,       \* history: search texts submitted, in order
      allEmpty |-> TRUE,      \* history: every search so far returned the empty list
      direct |-> << >>,       \* history: what the direct search returned
      fromCache |-> FALSE,    \* history: some collection was served from the cache
      caught |-> FALSE,       \* history: an exception was caught inside the call
      held |-> << >>,         \* history: the number of raw matches held at each failed query
      fetches |-> 0,          \* history: the curated references whose two lookups were started
      startedAt |-> 0,        \* history: the time of the call
      before |-> {},          \* history: passages obtained earlier in the session
      stored |-> << >>,       \* history: the times at which the call stored a collection
      ended |-> {},           \* history: the slots whose call had ended when this one started
      prev |-> << >> ]        \* history: the result of the previous find for the same goal

Passage(match) == [ id |-> match.verse.id, surah_number |-> match.verse.surah_number,
                    ayah |-> match.verse.ayah ]

Return(c, value) == [ c EXCEPT !.status = "returned", !.pc = "", !.result = value,
                              !.pending = << >>, !.stray = 0 ]

Reject(c) == [ c EXCEPT !.status = "rejected", !.pc = "", !.pending = << >>, !.stray = 0 ]

\* await quranAPI.searchVerses(...): one remote call is started
SearchStarted == << "searchVerses" >>

\* one lookup at a time: getVerse is awaited before getSurah is started
CuratedLookupsOneByOne == << "getVerse" >>

\* await Promise.all([quranAPI.getVerse(s, a), quranAPI.getSurah(s)]): both
\* remote calls are started before either is awaited
CuratedLookups == << "getVerse", "getSurah" >>

\* the remote call or calls that the method was awaiting have settled
Resumed(c) == [ c EXCEPT !.pending = << >> ]

\* an engine state while a method runs: the call and the two cache maps
EngineState(c, cache, expiry) == [ call |-> c, cache |-> cache, expiry |-> expiry ]

RECURSIVE EnterThematic(_, _, _), FinishThematic(_, _, _), ResumeAfterThematic(_, _, _)

\* this.getThematicCollection(theme) called at time t with the continuation ret:
\* served from a valid cache entry, or else the remote search is submitted
EnterThematic(st, t, spec) ==
    LET key == CacheKey(spec.theme)
        c   == [ st.call EXCEPT !.tcTheme = spec.theme, !.ret = spec.ret,
                                !.trail = IF spec.ret = "public" THEN @
                                          ELSE Append(@, "thematic:" \o spec.theme) ]
    IN  IF IsCacheValid(st.expiry, key, t)
        THEN FinishThematic([ st EXCEPT !.call = [ c EXCEPT !.fromCache = TRUE ] ],
                            t, << st.cache[key] >>)
        ELSE [ st EXCEPT !.call = [ c EXCEPT !.pc = "tc_search", !.verses = << >>,
                                             !.pending = SearchStarted,
                                             !.issued = Append(@, GetThemeSearchTerms(spec.theme)) ] ]

\* getThematicCollection has answered coll: to its caller outside the engine,
\* or to getThematicVersesForGoal
FinishThematic(st, t, coll) ==
    IF st.call.ret = "public" THEN [ st EXCEPT !.call = Return(@, coll) ]
    ELSE ResumeAfterThematic(st, t, GetThematicVersesForGoal(coll, st.call.tcTheme, st.call.goal))

\* getThematicVersesForGoal has answered got to the continuation st.call.ret
ResumeAfterThematic(st, t, got) ==
    LET c     == st.call
        again == [ st EXCEPT !.call = [ c EXCEPT !.alts = Tail(@) ] ]
    IN  CASE c.ret \in { "primary", "alternative", "more" } /\ got.raised ->
                 \* the outer catch of the method
                 EnterThematic([ st EXCEPT !.call = [ c EXCEPT !.caught = TRUE ] ], t,
                               [ theme |-> c.theme, ret |-> "catch" ])
          [] c.ret = "catch" /\ got.raised -> [ st EXCEPT !.call = Reject(c) ]
          [] c.ret \in { "primary", "alternative" } /\ ~got.raised ->
                 IF Len(got.value) > 0 THEN [ st EXCEPT !.call = Return(c, got.value) ]
                 ELSE IF Len(c.alts) = 0 THEN [ st EXCEPT !.call = Return(c, << >>) ]
                 ELSE EnterThematic(again, t, [ theme |-> Head(c.alts), ret |-> "alternative" ])
          [] OTHER -> [ st EXCEPT !.call = Return(c, got.value) ]

\* the outer catch of findVersesForGoal and getAdditionalVersesForGoal
OuterCatch(st, t) ==
    EnterThematic([ st EXCEPT !.call = [ @ EXCEPT !.caught = TRUE ] ], t,
                  [ theme |-> ThemeOf(st.call.goal), ret |-> "catch" ])

---------------------------------------------------------------------------
(* The engine's methods, one step per remote call awaited *)

Slots == { 1, 2 }

MaxFailures == 1

Running(s, pc) == calls[s].status = "running" /\ calls[s].pc = pc

Free(s) == calls[s].status # "running"

Here(c) == EngineState(c, apiCache, cacheExpiry)

Obtained(c) ==
    IF c.status = "returned" /\ c.kind \in { "find", "more" }
    THEN { Passage(c.result[i]) : i \in 1..Len(c.result) } ELSE {}

\* the engine state st replaces that of slot s; what a finished find or more
\* returned is added to the passages of the session
Settle(s, st) ==
    /\ calls' = [ calls EXCEPT ![s] = st.call ]
    /\ apiCache' = st.cache
    /\ cacheExpiry' = st.expiry
    /\ shown' = shown \cup Obtained(st.call)
    /\ lastFind' = IF st.call.status = "returned" /\ st.call.kind = "find"
                   THEN [ goal |-> st.call.goal, result |-> st.call.result ]
                   ELSE lastFind

Threshold(c) == IF c.kind = "find" THEN FindThreshold ELSE MoreThreshold

\* sortedResults: the slice of the ranking that the method converts
WindowOf(kind, count, sorted) ==
    IF kind = "find" THEN Slice(Slice(sorted, 0, 3), 0, InitialWindow)
    ELSE Slice(sorted, count, count + MoreWindow)

Window(c) == WindowOf(c.kind, c.count, SortByRelevance(c.goal, c.aggregated))

\* the query loop is over: direct search or thematic fallback when nothing was
\* accumulated, the ranking otherwise
AfterLoop(st, t) ==
    LET c == st.call
    IN  IF Len(c.aggregated) = 0
        THEN IF c.kind = "find"
             THEN [ st EXCEPT !.call = [ c EXCEPT !.pc = "direct", !.pending = SearchStarted,
                                                  !.trail = Append(@, "direct"),
                                                  !.issued = Append(@, c.goal) ] ]
             ELSE EnterThematic(st, t, [ theme |-> c.theme, ret |-> "more" ])
        ELSE IF CalculateRelevanceScoreRaises(c.goal)
             THEN OuterCatch(st, t)
             ELSE [ st EXCEPT !.call = [ c EXCEPT !.pc = "convert", !.sorted = Window(c) ] ]

\* the next query of the loop is submitted, if there is one
NextQuery(st, t) ==
    LET c == st.call
    IN  IF c.qi < Len(c.queries)
        THEN [ st EXCEPT !.call = [ c EXCEPT !.qi = @ + 1, !.pending = SearchStarted,
                                             !.issued = Append(@, c.queries[c.qi + 1]) ] ]
        ELSE AfterLoop(st, t)

StartCall(kind, goal, count, tenths) ==
    LET keywords == ExtractKeywords(goal)
        theme == DetermineTheme(keywords)
    IN  [ IdleCall EXCEPT !.kind = kind, !.status = "running", !.pc = "query",
                          !.goal = goal, !.count = count, !.theme = theme, !.random = tenths,
                          !.queries = BuildSearchQueries(goal, keywords, theme, tenths),
                          !.alts = AlternativesFor(theme),
                          !.startedAt = now, !.before = shown ]

\* quranEngine.findVersesForGoal(goal), up to its first remote call
StartFind(s, goal, tenths) ==
    /\ Free(s)
    /\ LET c == [ StartCall("find", goal, 0, tenths) EXCEPT
                    !.before = {},
                    !.prev = IF lastFind.goal = goal THEN lastFind.result ELSE << >> ]
       IN  /\ calls' = [ calls EXCEPT ![s] = NextQuery(Here(c), now).call ]
           /\ shown' = {}
    /\ made' = made + 1
    /\ UNCHANGED << apiCache, cacheExpiry, lastFind, now, failures, pureVars, pageVars >>

\* quranEngine.getAdditionalVersesForGoal(goal, currentCount), up to its first remote call
StartMore(s, goal, count, tenths) ==
    /\ Free(s)
    /\ calls' = [ calls EXCEPT ![s] = NextQuery(Here(StartCall("more", goal, count, tenths)), now).call ]
    /\ made' = made + 1
    /\ UNCHANGED << apiCache, cacheExpiry, shown, lastFind, now, failures, pureVars, pageVars >>

\* quranAPI.searchVerses(query) of the query loop returns answer
QueryReturn(s, answer) ==
    /\ Running(s, "query")
    /\ LET c  == [ Resumed(calls[s]) EXCEPT !.aggregated = DistinctByNumber(@ \o answer),
                                   !.allEmpty = @ /\ Len(answer) = 0 ]
       IN  Settle(s, IF Len(c.aggregated) >= Threshold(c)
                     THEN AfterLoop(Here(c), now) ELSE NextQuery(Here(c), now))
    /\ UNCHANGED << now, made, failures, pureVars, pageVars >>

\* a failed query that ends the loop and discards what was accumulated
QueryFailEndsLoop(s) ==
    /\ failures < MaxFailures
    /\ Running(s, "query")
    /\ Settle(s, AfterLoop(Here([ Resumed(calls[s]) EXCEPT
                                    !.allEmpty = FALSE,
                                    !.held = Append(@, Len(calls[s].aggregated)),
                                    !.aggregated = << >> ]), now))
    /\ failures' = failures + 1
    /\ UNCHANGED << now, made, pureVars, pageVars >>

\* quranAPI.searchVerses(query) of the query loop fails: the loop continues
QueryFail(s) ==
    /\ failures < MaxFailures
    /\ Running(s, "query")
    /\ Settle(s, NextQuery(Here([ Resumed(calls[s]) EXCEPT
                                    !.allEmpty = FALSE,
                                    !.held = Append(@, Len(calls[s].aggregated)) ]), now))
    /\ failures' = failures + 1
    /\ UNCHANGED << now, made, pureVars, pageVars >>

\* the ranked window is converted and wrapped
Assemble(s) ==
    /\ Running(s, "convert")
    /\ LET c == calls[s]
       IN  Settle(s, IF Len(c.sorted) > 0 /\ WrapMatchRaises(c.theme, c.goal)
                     THEN OuterCatch(Here(c), now)
                     ELSE Here(Return(c, Eager([ i \in 1..Len(c.sorted) |->
                              WrapMatch(ConvertSearchResult(c.sorted[i], c.theme, c.random),
                                        c.theme, c.goal) ]))))
    /\ UNCHANGED << now, made, failures, pureVars, pageVars >>

\* quranAPI.searchVerses(goal) of the direct search returns answer
DirectReturn(s, answer) ==
    /\ Running(s, "direct")
    /\ LET c == [ Resumed(calls[s]) EXCEPT !.direct = answer, !.allEmpty = @ /\ Len(answer) = 0 ]
       IN  Settle(s, IF Len(answer) = 0
                     THEN EnterThematic(Here(c), now, [ theme |-> c.theme, ret |-> "primary" ])
                     ELSE IF WrapMatchRaises("guidance", c.goal)
                     THEN EnterThematic(Here([ c EXCEPT !.caught = TRUE ]), now,
                                        [ theme |-> c.theme, ret |-> "primary" ])
                     ELSE Here(Return(c, << WrapMatch(ConvertSearchResult(answer[1], "guidance", c.random),
                                                      "guidance", c.goal) >>)))
    /\ UNCHANGED << now, made, failures, pureVars, pageVars >>

\* quranAPI.searchVerses(goal) of the direct search fails
DirectFail(s) ==
    /\ failures < MaxFailures
    /\ Running(s, "direct")
    /\ Settle(s, EnterThematic(Here([ Resumed(calls[s]) EXCEPT !.allEmpty = FALSE ]), now,
                               [ theme |-> calls[s].theme, ret |-> "primary" ]))
    /\ failures' = failures + 1
    /\ UNCHANGED << now, made, pureVars, pageVars >>

\* quranEngine.getThematicCollection(theme) called from outside the engine
StartThematic(s, theme, tenths) ==
    /\ Free(s)
    /\ LET c == [ IdleCall EXCEPT !.kind = "thematic", !.status = "running",
                                  !.theme = theme, !.random = tenths,
                                  !.startedAt = now, !.before = shown,
                                  !.ended = { o \in Slots \ { s } : calls[o].status = "returned" } ]
       IN  Settle(s, EnterThematic(Here(c), now, [ theme |-> theme, ret |-> "public" ]))
    /\ made' = made + 1
    /\ UNCHANGED << now, failures, pureVars, pageVars >>

\* the collection is stored and returned, and no expiry is recorded for it
StoreCollectionWithoutExpiry(st, t, verses) ==
    LET key        == CacheKey(st.call.tcTheme)
        collection == Collection(st.call.tcTheme, verses)
    IN  FinishThematic([ st EXCEPT !.cache = Put(@, key, collection),
                                   !.call = [ @ EXCEPT !.stored = Append(@, t) ] ],
                       t, << collection >>)

\* apiCache.set(cacheKey, collection); cacheExpiry.set(cacheKey, Date.now() + CACHE_DURATION),
\* and the collection is returned to the continuation
StoreCollection(st, t, verses) ==
    LET key        == CacheKey(st.call.tcTheme)
        collection == Collection(st.call.tcTheme, verses)
    IN  FinishThematic([ st EXCEPT !.cache = Put(@, key, collection),
                                   !.expiry = Put(@, key, t + CACHE_DURATION),
                                   !.call = [ @ EXCEPT !.stored = Append(@, t) ] ],
                       t, << collection >>)

\* quranAPI.searchVerses(searchTerms) of getThematicCollection returns answer:
\* up to 5 matches are converted and stored, or the curated list is shuffled
TcSearchReturn(s, answer, offset) ==
    /\ Running(s, "tc_search")
    /\ LET c       == [ Resumed(calls[s]) EXCEPT !.allEmpty = @ /\ Len(answer) = 0 ]
           taken   == Slice(answer, 0, CollectionLimit)
           curated == Slice(Rotate(CuratedRefs(c.tcTheme), offset), 0, CuratedLimit)
       IN  Settle(s, IF Len(taken) > 0
                     THEN StoreCollection(Here(c), now,
                              Eager([ i \in 1..Len(taken) |->
                                        ConvertSearchResult(taken[i], c.tcTheme, c.random) ]))
                     ELSE IF Len(curated) > 0
                     THEN Here([ c EXCEPT !.pc = "tc_fetch", !.refs = curated, !.verses = << >>,
                                          !.pending = CuratedLookups, !.fetches = @ + 1 ])
                     ELSE StoreCollection(Here(c), now, << >>))
    /\ UNCHANGED << now, made, failures, pureVars, pageVars >>

\* a failed search that stores a collection without passages
TcSearchFailStoresEmpty(s) ==
    /\ failures < MaxFailures
    /\ Running(s, "tc_search")
    /\ Settle(s, StoreCollection(Here([ Resumed(calls[s]) EXCEPT !.allEmpty = FALSE ]), now, << >>))
    /\ failures' = failures + 1
    /\ UNCHANGED << now, made, pureVars, pageVars >>

\* quranAPI.searchVerses(searchTerms) of getThematicCollection fails: null
TcSearchFail(s) ==
    /\ failures < MaxFailures
    /\ Running(s, "tc_search")
    /\ Settle(s, FinishThematic(Here([ Resumed(calls[s]) EXCEPT !.allEmpty = FALSE ]), now, << >>))
    /\ failures' = failures + 1
    /\ UNCHANGED << now, made, pureVars, pageVars >>

\* the curated list is exhausted: the collection is stored; or else the two
\* lookups of the next reference are started
AfterFetch(st, t) ==
    IF Len(st.call.refs) = 0 THEN StoreCollection(st, t, st.call.verses)
    ELSE [ st EXCEPT !.call = [ @ EXCEPT !.pending = CuratedLookups, !.fetches = @ + 1 ] ]

\* quranAPI.getVerse(s, a) and quranAPI.getSurah(s) of a curated reference both return
FetchReturn(s) ==
    /\ Running(s, "tc_fetch")
    /\ LET c   == Resumed(calls[s])
           ref == Head(c.refs)
           qv  == ConvertCurated(GetVerse(ref[1], ref[2]), GetSurah(ref[1]), c.tcTheme, c.random)
       IN  Settle(s, AfterFetch(Here([ c EXCEPT !.refs = Tail(@), !.verses = Append(@, qv) ]), now))
    /\ UNCHANGED << now, made, failures, pureVars, pageVars >>

\* one of the two lookups of a curated reference fails: Promise.all rejects at
\* once and the reference is skipped, while the other lookup has settled
\* already or is still under way
FetchFail(s) ==
    /\ failures < MaxFailures
    /\ Running(s, "tc_fetch")
    /\ \E unsettled \in { 0, 1 } :
          Settle(s, AfterFetch(Here([ Resumed(calls[s]) EXCEPT !.refs = Tail(@),
                                                               !.stray = @ + unsettled ]), now))
    /\ failures' = failures + 1
    /\ UNCHANGED << now, made, pureVars, pageVars >>

\* a lookup that the method no longer awaits settles
StraySettle(s) ==
    /\ calls[s].status = "running"
    /\ calls[s].stray > 0
    /\ calls' = [ calls EXCEPT ![s] = [ @ EXCEPT !.stray = @ - 1 ] ]
    /\ UNCHANGED << apiCache, cacheExpiry, shown, lastFind, now, made, failures, pureVars, pageVars >>

\* quranEngine.getDailyVerse(), up to quranAPI.getRandomVerse()
StartDaily(s, tenths) ==
    /\ Free(s)
    /\ calls' = [ calls EXCEPT ![s] = [ IdleCall EXCEPT !.kind = "daily", !.status = "running",
                                                        !.pc = "random", !.random = tenths,
                                                        !.pending = << "getRandomVerse" >>,
                                                        !.startedAt = now ] ]
    /\ made' = made + 1
    /\ UNCHANGED << apiCache, cacheExpiry, shown, lastFind, now, failures, pureVars, pageVars >>

\* analyzeUserFocus(goals, habits)
AnalyzeUserFocus(userGoals, habits) ==
    LET allText == ToLowerCase(Join(userGoals \o habits, " "))
        Hit(theme) == \E i \in 1..Len(PracticalGuidanceLower[theme]) :
                          Includes(allText, PracticalGuidanceLower[theme][i])
    IN  IF \E k \in 1..Len(ThemeOrder) : Hit(ThemeOrder[k])
        THEN ThemeOrder[CHOOSE k \in 1..Len(ThemeOrder) :
                            Hit(ThemeOrder[k]) /\ \A j \in 1..(k - 1) : ~Hit(ThemeOrder[j])]
        ELSE "guidance"

\* getPersonalizedGuidance(focus, goals) reads PRACTICAL_GUIDANCE.guidance when
\* the focus has no guidance of its own
GetPersonalizedGuidanceRaises(focus) == ~HasGuidance(focus) /\ ~HasGuidance("guidance")

\* quranEngine.getSmartRecommendation(userGoals, completedHabits), up to quranAPI.getRandomVerse()
StartSmart(s, userGoals, completedHabits, tenths) ==
    /\ Free(s)
    /\ calls' = [ calls EXCEPT ![s] =
                    [ IdleCall EXCEPT !.kind = "smart", !.status = "running", !.pc = "random",
                                      !.pending = << "getRandomVerse" >>,
                                      !.goal = Join(userGoals, ", "),
                                      !.theme = AnalyzeUserFocus(userGoals, completedHabits),
                                      !.startedAt = now ] ]
    /\ made' = made + 1
    /\ UNCHANGED << apiCache, cacheExpiry, shown, lastFind, now, failures, pureVars, pageVars >>

\* quranAPI.getRandomVerse() returns response
RandomReturn(s, response) ==
    /\ Running(s, "random")
    /\ LET c     == calls[s]
           verse == ConvertAPIVerseToQuranVerse(response.verse, response.surah.number,
                                                response.theme, c.random)
       IN  Settle(s, Here(IF c.kind = "smart" /\ GetPersonalizedGuidanceRaises(c.theme)
                          THEN Return([ c EXCEPT !.caught = TRUE ], << getFallbackVerse >>)
                          ELSE Return(c, << verse >>)))
    /\ UNCHANGED << now, made, failures, pureVars, pageVars >>

\* quranAPI.getRandomVerse() fails: the built-in verse is returned
RandomFail(s) ==
    /\ failures < MaxFailures
    /\ Running(s, "random")
    /\ Settle(s, Here(Return([ calls[s] EXCEPT !.caught = TRUE ], << getFallbackVerse >>)))
    /\ failures' = failures + 1
    /\ UNCHANGED << now, made, pureVars, pageVars >>

\* time passes
Tick ==
    /\ now < MaxTicks * TickLength
    /\ now' = now + TickLength
    /\ UNCHANGED << calls, apiCache, cacheExpiry, shown, lastFind, made, failures, pureVars, pageVars, uiVars >>

---------------------------------------------------------------------------
(* The clients of the engine.  Their inputs: *)

EngineGoals == { "Improve patience", "xyz" }

ThemeInputs == { "patience" }

SmartInputs == { << "Improve patience" >>, << PRACTICAL_GUIDANCE["patience"][1] >> }

MaxCount == 2

EngineInit ==
    /\ calls = [ s \in Slots |-> IdleCall ]
    /\ apiCache = EmptyMap
    /\ cacheExpiry = EmptyMap
    /\ now = 0
    /\ shown = {}
    /\ lastFind = [ goal |-> "", result |-> << >> ]
    /\ made = 0
    /\ failures = 0

\* nothing built and nothing scored yet
NoScore == [ status |-> "none", units |-> 0, den |-> 1, reflection |-> "" ]

PureResultsIdle ==
    /\ pQueries = << >>
    /\ pText = ""
    /\ pScore = NoScore

PureIdle ==
    /\ pGoal = ""
    /\ pKeywords = << >>
    /\ pTheme = ""
    /\ pPc = "idle"
    /\ PureResultsIdle

UiProps == { [ goalTitle |-> "Patience", goalDescription |-> "", goalCategory |-> "personal" ] }

\* no goal id: the null of selectedGoal, editingGoal and guidanceGoalId
NoId == ""

\* the GoalsList component and the spotlight before any interaction
ListIdle ==
    /\ editingGoal = NoId
    /\ selectedGoal = NoId
    /\ newlyCreatedGoalId = NoId
    /\ guidanceGoalId = NoId
    /\ showGuidance = FALSE
    /\ removed = {}

\* the goals dashboard not mounted over an empty store
DashIdle ==
    /\ storage = << >>
    /\ goals = << >>
    /\ queued = << >>
    /\ phase = "load"
    /\ pass = 0
    /\ strict = FALSE
    /\ clock = 0
    /\ ListIdle

CACHE_NAME == "quranlife-v1"
STATIC_CACHE == "quranlife-static-v1"

\* no fetch event is being answered
NoEvent == [ pc |-> "none", url |-> "", mode |-> "", answer |-> "", served |-> "",
             matched |-> FALSE, failed |-> FALSE ]

\* the service worker before its install event
SwIdle ==
    /\ swCaches = [ c \in { CACHE_NAME, STATIC_CACHE } |-> {} ]
    /\ swEvent = NoEvent
    /\ swPhase = "installing"

PageIdle == DashIdle /\ SwIdle

\* the component before its effect has run
UiInit ==
    /\ props \in UiProps
    /\ guidance = << >>
    /\ loading = TRUE
    /\ loadingMore = FALSE
    /\ captured = << >>
    /\ awaiting = {}

Init == EngineInit /\ PureIdle /\ UiInit /\ PageIdle

\* the remote source answers the call that slot 1 is waiting for
SearchReturns ==
    /\ \E answer \in SearchAnswers : QueryReturn(1, answer)
    /\ UNCHANGED uiVars

SearchFails ==
    /\ QueryFail(1)
    /\ UNCHANGED uiVars

Assembles ==
    /\ Assemble(1)
    /\ UNCHANGED uiVars

DirectReturns ==
    /\ \E answer \in SearchAnswers : DirectReturn(1, answer)
    /\ UNCHANGED uiVars

DirectFails ==
    /\ DirectFail(1)
    /\ UNCHANGED uiVars

ThemeSearchReturns ==
    /\ \E answer \in ThemeAnswers, offset \in ShuffleOffsets : TcSearchReturn(1, answer, offset)
    /\ UNCHANGED uiVars

ThemeSearchFails ==
    /\ TcSearchFail(1)
    /\ UNCHANGED uiVars

FetchReturns ==
    /\ FetchReturn(1)
    /\ UNCHANGED uiVars

FetchFails ==
    /\ FetchFail(1)
    /\ UNCHANGED uiVars

StrayLookupSettles ==
    /\ StraySettle(1)
    /\ UNCHANGED uiVars

RandomReturns ==
    /\ \E response \in RandomAnswers : RandomReturn(1, response)
    /\ UNCHANGED uiVars

RandomFails ==
    /\ RandomFail(1)
    /\ UNCHANGED uiVars

---------------------------------------------------------------------------
(* One call of a public method on a fresh engine, for every method, and   *)
(* every outcome of every remote call with at most MaxFailures failures.  *)

Find ==
    /\ made = 0
    /\ \E goal \in EngineGoals, tenths \in RandomTenths : StartFind(1, goal, tenths)
    /\ UNCHANGED uiVars

More ==
    /\ made = 0
    /\ \E goal \in EngineGoals, count \in 0..MaxCount, tenths \in RandomTenths :
          StartMore(1, goal, count, tenths)
    /\ UNCHANGED uiVars

Thematic ==
    /\ made = 0
    /\ \E theme \in ThemeInputs, tenths \in RandomTenths : StartThematic(1, theme, tenths)
    /\ UNCHANGED uiVars

Daily ==
    /\ made = 0
    /\ \E tenths \in RandomTenths : StartDaily(1, tenths)
    /\ UNCHANGED uiVars

Smart ==
    /\ made = 0
    /\ \E input \in SmartInputs, tenths \in RandomTenths : StartSmart(1, input, << >>, tenths)
    /\ UNCHANGED uiVars

Next ==
    \/ Find \/ More \/ Thematic \/ Daily \/ Smart
    \/ SearchReturns \/ SearchFails \/ Assembles
    \/ DirectReturns \/ DirectFails
    \/ ThemeSearchReturns \/ ThemeSearchFails \/ FetchReturns \/ FetchFails
    \/ StrayLookupSettles
    \/ RandomReturns \/ RandomFails

Spec == Init /\ [][Next]_vars

---------------------------------------------------------------------------
(* A session: a first call that fills the engine's cache or opens a       *)
(* guidance session, then a second call made once the first has returned: *)
(* the same or another goal searched again, or more passages loaded for   *)
(* the session's goal with the number of passages obtained so far.  The   *)
(* remote source answers every call.                                      *)

SessionGoal == IF calls[1].kind = "find" THEN calls[1].goal ELSE ""

OpenFind ==
    /\ made = 0
    /\ \E goal \in EngineGoals, tenths \in RandomTenths : StartFind(1, goal, tenths)
    /\ UNCHANGED uiVars

OpenThematic ==
    /\ made = 0
    /\ \E theme \in ThemeInputs, tenths \in RandomTenths : StartThematic(1, theme, tenths)
    /\ UNCHANGED uiVars

FindAgain ==
    /\ made = 1
    /\ \E goal \in EngineGoals, tenths \in RandomTenths : StartFind(1, goal, tenths)
    /\ UNCHANGED uiVars

LoadMore ==
    /\ made = 1
    /\ SessionGoal # ""
    /\ \E tenths \in RandomTenths : StartMore(1, SessionGoal, Cardinality(shown), tenths)
    /\ UNCHANGED uiVars

SessionNext ==
    \/ OpenFind \/ OpenThematic \/ FindAgain \/ LoadMore
    \/ SearchReturns \/ Assembles \/ DirectReturns \/ ThemeSearchReturns \/ FetchReturns

SpecSession == Init /\ [][SessionNext]_vars

---------------------------------------------------------------------------
(* Two calls of getThematicCollection for one theme, the second started   *)
(* at any moment after the first one: while it runs or after it ended,    *)
(* before or after the expiry of what it stored.                          *)

FirstThematic ==
    /\ made = 0
    /\ \E theme \in ThemeInputs, tenths \in RandomTenths : StartThematic(1, theme, tenths)
    /\ UNCHANGED uiVars

SecondThematic ==
    /\ made = 1
    /\ calls[1].kind = "thematic"
    /\ \E tenths \in RandomTenths : StartThematic(2, calls[1].theme, tenths)
    /\ UNCHANGED uiVars

EitherThemeSearchReturns ==
    /\ \E s \in Slots, answer \in ThemeAnswers, offset \in ShuffleOffsets :
            TcSearchReturn(s, answer, offset)
    /\ UNCHANGED uiVars

EitherThemeSearchFails ==
    /\ \E s \in Slots : TcSearchFail(s)
    /\ UNCHANGED uiVars

EitherFetchReturns ==
    /\ \E s \in Slots : FetchReturn(s)
    /\ UNCHANGED uiVars

EitherFetchFails ==
    /\ \E s \in Slots : FetchFail(s)
    /\ UNCHANGED uiVars

ThematicNext ==
    \/ FirstThematic \/ SecondThematic
    \/ EitherThemeSearchReturns \/ EitherThemeSearchFails
    \/ EitherFetchReturns \/ EitherFetchFails
    \/ Tick

SpecThematic == Init /\ [][ThematicNext]_vars

---------------------------------------------------------------------------
(* The SmartGuidance component: it loads the guidance of its goal when it *)
(* is mounted (slot 1) and loads more of it at each click on "Load More   *)
(* Guidance" (slot 2).  The remote source does not fail here.             *)

MaxClicks == 1

\* `${goalTitle} ${goalDescription} ${goalCategory}`.trim()
GoalText(p) == Trim(p.goalTitle \o " " \o p.goalDescription \o " " \o p.goalCategory)

Ended(s, kind) == calls[s].kind = kind /\ calls[s].status \in { "returned", "rejected" }

\* useEffect: loadGuidance() up to its await
Mount ==
    /\ made = 0
    /\ loading
    /\ \E tenths \in RandomTenths : StartFind(1, GoalText(props), tenths)
    /\ loading' = TRUE
    /\ UNCHANGED << guidance, loadingMore, captured, props, awaiting >>

\* loadGuidance() without its finally block
GuidanceLoadedWithoutFinally ==
    /\ loading
    /\ Ended(1, "find")
    /\ guidance' = IF calls[1].status = "returned" THEN calls[1].result ELSE << >>
    /\ UNCHANGED << loading, loadingMore, captured, props, awaiting, engineVars, pureVars, pageVars >>

\* loadGuidance() after its await: setGuidance(matches), or setGuidance([]) in
\* the catch; setLoading(false)
GuidanceLoaded ==
    /\ loading
    /\ Ended(1, "find")
    /\ guidance' = IF calls[1].status = "returned" THEN calls[1].result ELSE << >>
    /\ loading' = FALSE
    /\ UNCHANGED << loadingMore, captured, props, awaiting, engineVars, pureVars, pageVars >>

\* the button is rendered when the list is shown and enabled while no load
\* is under way; handleLoadMore() up to its await
ClickLoadMore ==
    /\ ~loading
    /\ Len(guidance) > 0
    /\ ~loadingMore
    /\ made <= MaxClicks
    /\ \E tenths \in RandomTenths : StartMore(2, GoalText(props), Len(guidance), tenths)
    /\ loadingMore' = TRUE
    /\ captured' = guidance
    /\ UNCHANGED << guidance, loading, props, awaiting >>

\* uniqueAdditionalVerses: what is not in the list that the handler captured,
\* by verse id and by surah:ayah
UniqueAdditionalVerses(existing, additionalVerses) ==
    LET existingIds == { existing[i].verse.id : i \in 1..Len(existing) }
        existingSurahAyah == { << existing[i].verse.surah_number, existing[i].verse.ayah >> :
                                 i \in 1..Len(existing) }
        Fresh(match) == /\ match.verse.id \notin existingIds
                        /\ << match.verse.surah_number, match.verse.ayah >> \notin existingSurahAyah
    IN  SelectSeq(additionalVerses, Fresh)

\* handleLoadMore() after its await: setGuidance(prev => [...prev, ...unique]),
\* or nothing in the catch; setLoadingMore(false)
MoreLoaded ==
    /\ loadingMore
    /\ Ended(2, "more")
    /\ guidance' = IF calls[2].status = "returned"
                   THEN guidance \o UniqueAdditionalVerses(captured, calls[2].result)
                   ELSE guidance
    /\ loadingMore' = FALSE
    /\ UNCHANGED << loading, captured, props, awaiting, engineVars, pureVars, pageVars >>

EitherSearchReturns ==
    /\ \E s \in Slots, answer \in SearchAnswers : QueryReturn(s, answer)
    /\ UNCHANGED uiVars

EitherAssembles ==
    /\ \E s \in Slots : Assemble(s)
    /\ UNCHANGED uiVars

UiNext ==
    \/ Mount \/ GuidanceLoaded \/ ClickLoadMore \/ MoreLoaded
    \/ EitherSearchReturns \/ EitherAssembles \/ DirectReturns
    \/ EitherThemeSearchReturns \/ EitherFetchReturns

SpecUI == Init /\ [][UiNext]_vars

---------------------------------------------------------------------------
(* The component with a remote source that answers or fails: every remote  *)
(* call that a lookup awaits is settled eventually, and so is every step   *)
(* of the component that does not wait for the user.  One handler of the  *)
(* component is followed: the load at the mount, or a load of more under  *)
(* a list that an earlier load left.                                      *)

\* what quranAPI.searchVerses may return for a query of the loop: nothing,
\* or enough to end the loop
SettlingAnswers ==
    { << >>,
      << GetVerse(2, 153), GetVerse(2, 155), GetVerse(3, 200), GetVerse(8, 46), GetVerse(103, 3) >> }

QuerySettles ==
    /\ \E s \in Slots : \/ \E answer \in SettlingAnswers : QueryReturn(s, answer)
                        \/ QueryFail(s)
    /\ UNCHANGED uiVars

DirectSettles ==
    /\ \E s \in Slots : \/ \E answer \in SettlingAnswers : DirectReturn(s, answer)
                        \/ DirectFail(s)
    /\ UNCHANGED uiVars

ThemeSearchSettles ==
    /\ \E s \in Slots : \/ \E answer \in ThemeAnswers, offset \in ShuffleOffsets :
                               TcSearchReturn(s, answer, offset)
                        \/ TcSearchFail(s)
    /\ UNCHANGED uiVars

FetchSettles ==
    /\ \E s \in Slots : FetchReturn(s) \/ FetchFail(s)
    /\ UNCHANGED uiVars

StraySettles ==
    /\ \E s \in Slots : StraySettle(s)
    /\ UNCHANGED uiVars

\* the list displayed after a load for the goal of the props that found one passage
DisplayedList ==
    << WrapMatch(ConvertSearchResult(GetVerse(2, 153), ThemeOf(GoalText(CHOOSE p \in UiProps : TRUE)), 0),
                 ThemeOf(GoalText(CHOOSE p \in UiProps : TRUE)),
                 GoalText(CHOOSE p \in UiProps : TRUE)) >>

\* the component before its effect has run, or displaying the list of a load
\* that is over
LiveInit ==
    /\ PureIdle
    /\ calls = [ s \in Slots |-> IdleCall ]
    /\ apiCache = EmptyMap
    /\ cacheExpiry = EmptyMap
    /\ now = 0
    /\ shown = {}
    /\ lastFind = [ goal |-> "", result |-> << >> ]
    /\ failures = 0
    /\ props \in UiProps
    /\ loadingMore = FALSE
    /\ captured = << >>
    /\ awaiting = {}
    /\ PageIdle
    /\ \/ made = 0 /\ loading = TRUE /\ guidance = << >>
       \/ made = 1 /\ loading = FALSE /\ guidance = DisplayedList

\* a click on "Load More Guidance" under the displayed list; handleLoadMore()
\* up to its await
ClickUnderDisplayedList ==
    /\ made = 1
    /\ calls[1].kind = "none"
    /\ ~loading
    /\ Len(guidance) > 0
    /\ ~loadingMore
    /\ \E tenths \in RandomTenths : StartMore(2, GoalText(props), Len(guidance), tenths)
    /\ loadingMore' = TRUE
    /\ captured' = guidance
    /\ UNCHANGED << guidance, loading, props, awaiting >>

LiveNext ==
    \/ Mount \/ GuidanceLoaded \/ ClickUnderDisplayedList \/ MoreLoaded
    \/ QuerySettles \/ EitherAssembles \/ DirectSettles
    \/ ThemeSearchSettles \/ FetchSettles \/ StraySettles

\* a lookup is running: it awaits a remote call or the conversion of its
\* window; or the effect of the mount has not run yet
StepAwaited ==
    \/ \E s \in Slots : calls[s].status = "running"
    \/ loading /\ made = 0

\* a lookup starts or goes on
LookupAdvances == calls' # calls

\* awaits resume and the effect runs; every remote call resolves or fails:
\* weak fairness of the steps of the lookups, with their enabling condition
\* written out as StepAwaited
LiveFairness ==
    /\ WF_vars(GuidanceLoaded)
    /\ WF_vars(MoreLoaded)
    /\ ([]<>(~StepAwaited) \/ []<><<LookupAdvances>>_vars)

SpecLive == LiveInit /\ [][LiveNext]_vars /\ LiveFairness

---------------------------------------------------------------------------
(* The SmartGuidance component whose goal changes: the props change once,  *)
(* at any moment after the mount, and the effect runs loadGuidance again   *)
(* (slot 2) while the first lookup (slot 1) is under way or over.  The     *)
(* remote source finds matches for the queries of both lookups.           *)

\* the goals the component is rendered with
ChangingProps ==
    { [ goalTitle |-> "Patience", goalDescription |-> "", goalCategory |-> "personal" ],
      [ goalTitle |-> "Family", goalDescription |-> "", goalCategory |-> "personal" ] }

\* useEffect at the mount: loadGuidance() up to its await
MountFirstGoal ==
    /\ made = 0
    /\ \E tenths \in RandomTenths : StartFind(1, GoalText(props), tenths)
    /\ loading' = TRUE
    /\ awaiting' = awaiting \cup { 1 }
    /\ UNCHANGED << guidance, loadingMore, captured, props >>

\* new props: loadGuidance is a new callback, the effect runs it up to its
\* await; nothing is done about the lookup of the props before
ChangeGoal ==
    /\ made = 1
    /\ \E p \in ChangingProps \ { props }, tenths \in RandomTenths :
          /\ props' = p
          /\ StartFind(2, GoalText(p), tenths)
    /\ loading' = TRUE
    /\ awaiting' = awaiting \cup { 2 }
    /\ UNCHANGED << guidance, loadingMore, captured >>

\* a loadGuidance() resumes after its await: setGuidance(matches), or
\* setGuidance([]) in the catch; setLoading(false)
GuidanceDelivered ==
    /\ \E s \in awaiting :
          /\ Ended(s, "find")
          /\ guidance' = IF calls[s].status = "returned" THEN calls[s].result ELSE << >>
          /\ awaiting' = awaiting \ { s }
    /\ loading' = FALSE
    /\ UNCHANGED << loadingMore, captured, props, engineVars, pureVars, pageVars >>

\* the remote source finds matches for every query of the two lookups
MatchingAnswers == SearchAnswers \ { << >> }

MatchesReturned ==
    /\ \E s \in Slots, answer \in MatchingAnswers : QueryReturn(s, answer)
    /\ UNCHANGED uiVars

GoalChangeNext ==
    \/ MountFirstGoal \/ ChangeGoal \/ GuidanceDelivered
    \/ MatchesReturned \/ EitherAssembles

SpecGoalChange == Init /\ [][GoalChangeNext]_vars

---------------------------------------------------------------------------
(* The classifier pipeline on bounded goal texts *)

MaxGoalWords == 2

GoalWords == { "exercise", "habit", "daily", "Build", "patience", "Improve", "a", "xyz", "gym", "???" }

RECURSIVE TextsOf(_)
TextsOf(n) ==
    IF n = 0 THEN {}
    ELSE GoalWords \cup TextsOf(n - 1)
           \cup { t \o " " \o w : t \in TextsOf(n - 1), w \in GoalWords }

ScenarioGoals == { "Build a daily exercise habit", "Improve patience", "xyz qqq" }

GoalTexts == ScenarioGoals \cup TextsOf(MaxGoalWords)

PInit ==
    /\ pGoal \in GoalTexts
    /\ pKeywords = << >>
    /\ pTheme = ""
    /\ pPc = "input"
    /\ PureResultsIdle
    /\ EngineInit
    /\ UiInit
    /\ PageIdle

PExtract ==
    /\ pPc = "input"
    /\ pKeywords' = ExtractKeywords(pGoal)
    /\ pPc' = "extracted"
    /\ UNCHANGED << pGoal, pTheme, pQueries, pText, pScore, engineVars, uiVars, pageVars >>

PClassify ==
    /\ pPc = "extracted"
    /\ pTheme' = DetermineTheme(pKeywords)
    /\ pPc' = "classified"
    /\ UNCHANGED << pGoal, pKeywords, pQueries, pText, pScore, engineVars, uiVars, pageVars >>

PNext == PExtract \/ PClassify

SpecClassifier == PInit /\ [][PNext]_vars

---------------------------------------------------------------------------
(* The query builder on goal texts, keyword lists and themes chosen        *)
(* independently of each other                                             *)

QueryGoals == { "", "  ", "patience", "Improve patience", "xyz qqq" }

QueryKeywords ==
    { << >>, << "" >>, << "", "" >>, << "the", "and" >>, << "patience" >>,
      << "improve", "patience" >>, << "xyz", "qqq" >>,
      << "build", "daily", "exercise", "habit", "gym" >> }

QueryThemes == Themes \cup { "guidance" }

QInit ==
    /\ pGoal \in QueryGoals
    /\ pKeywords \in QueryKeywords
    /\ pTheme \in QueryThemes
    /\ pPc = "classified"
    /\ PureResultsIdle
    /\ EngineInit
    /\ UiInit
    /\ PageIdle

PBuild ==
    /\ pPc = "classified"
    /\ \E tenths \in RandomTenths :
          pQueries' = BuildSearchQueries(pGoal, pKeywords, pTheme, tenths)
    /\ pPc' = "built"
    /\ UNCHANGED << pGoal, pKeywords, pTheme, pText, pScore, engineVars, uiVars, pageVars >>

SpecQueries == QInit /\ [][PBuild]_vars

---------------------------------------------------------------------------
(* The relevance scorer on goal texts and passages *)

ScoreGoals ==
    { "", "???", "patience", "patience patience patience", "Improve patience",
      "health", "health care wait more", "constructor", "My constructor set" }

PassageTexts ==
    { "", "--- ???", "patience", "Be patient and steadfast",
      "take care while waiting", "Health care is a blessing",
      "O you who have believed, seek help through patience and prayer" }

PassageReflections == { "", reflectionTemplates["patience"][1] }

SInit ==
    /\ pGoal \in ScoreGoals
    /\ pText \in PassageTexts
    /\ pKeywords = << >>
    /\ pTheme = ""
    /\ pPc = "input"
    /\ pQueries = << >>
    /\ pScore = NoScore
    /\ EngineInit
    /\ UiInit
    /\ PageIdle

\* calculateRelevanceScore(pGoal, verse) for a verse with the translation pText
PScore ==
    /\ pPc = "input"
    /\ \E reflection \in PassageReflections :
          pScore' = IF CalculateRelevanceScoreRaises(pGoal)
                    THEN [ status |-> "raised", units |-> 0, den |-> 1,
                           reflection |-> reflection ]
                    ELSE [ status |-> "returned",
                           units |-> CalculateRelevanceScore(pGoal, pText, reflection).units,
                           den |-> CalculateRelevanceScore(pGoal, pText, reflection).den,
                           reflection |-> reflection ]
    /\ pPc' = "scored"
    /\ UNCHANGED << pGoal, pKeywords, pTheme, pQueries, pText, engineVars, uiVars, pageVars >>

SpecScorer == SInit /\ [][PScore]_vars

---------------------------------------------------------------------------
(* The query loop of the two lookups, with answers long enough to reach    *)
(* both thresholds: the calls are followed until their loop is over.       *)

\* what quranAPI.searchVerses may return for a query of the loop
LoopAnswers ==
    SearchAnswers \cup
      { << GetVerse(13, 11), GetVerse(94, 5), GetVerse(94, 6), GetVerse(39, 10), GetVerse(2, 286) >> }

LoopFind ==
    /\ made = 0
    /\ \E goal \in EngineGoals, tenths \in RandomTenths : StartFind(1, goal, tenths)
    /\ UNCHANGED uiVars

LoopMore ==
    /\ made = 0
    /\ \E goal \in EngineGoals, count \in { 0, MaxCount }, tenths \in RandomTenths :
          StartMore(1, goal, count, tenths)
    /\ UNCHANGED uiVars

LoopSearchReturns ==
    /\ \E answer \in LoopAnswers : QueryReturn(1, answer)
    /\ UNCHANGED uiVars

LoopSearchFails ==
    /\ QueryFail(1)
    /\ UNCHANGED uiVars

LoopNext == LoopFind \/ LoopMore \/ LoopSearchReturns \/ LoopSearchFails

SpecLoop == Init /\ [][LoopNext]_vars

---------------------------------------------------------------------------
(* Properties of the engine's public methods *)

Finished(c, kind) == c.kind = kind /\ c.status = "returned"

Coordinates(verse) == << verse.surah_number, verse.ayah >>

\* C1: no call of a public method ends by raising to its caller, whatever
\* the remote source does and whatever the goal text or theme is: every call
\* that ends has returned a value.
NoPublicMethodRejects == \A s \in Slots : calls[s].status # "rejected"

\* C1 happens: a find for a goal of the default theme 'guidance' that had raw
\* matches, so that generatePracticalSteps raised inside it, has returned.
GuidanceFindReturnedAfterRaise ==
    /\ Finished(calls[1], "find")
    /\ calls[1].theme = "guidance"
    /\ Len(calls[1].aggregated) > 0
    /\ calls[1].caught

\* C2: a find that accumulated at least one raw match returns exactly one
\* MatchResult, built from the raw match ranked first (highest score, the
\* earliest accumulated among equals), with 5 practical steps: for every
\* theme, 'guidance' included.
FindReturnsTopRankedMatch ==
    \A s \in Slots :
        Finished(calls[s], "find") /\ Len(calls[s].aggregated) >= 1 =>
            /\ Len(calls[s].result) = 1
            /\ calls[s].result[1].verse.id =
                   SortByRelevance(calls[s].goal, calls[s].aggregated)[1].number
            /\ Len(calls[s].result[1].practicalSteps) = 5

\* the strategies a find without raw matches may go through, in order
StrategyOrder(c) ==
    << "direct", "thematic:" \o c.theme >>
        \o [ i \in 1..Len(AlternativesFor(c.theme)) |->
               "thematic:" \o AlternativesFor(c.theme)[i] ]

\* C3: a find that accumulated no raw match tries the direct search, then the
\* thematic fallback of the classified theme, then that of the alternative
\* themes in order; the first strategy that yields something gives the
\* result and no later one is invoked: a direct search that returns matches
\* gives a result built from its first match.
FirstYieldingStrategyWins ==
    \A s \in Slots :
        Finished(calls[s], "find") /\ Len(calls[s].aggregated) = 0 =>
            /\ Len(calls[s].trail) <= Len(StrategyOrder(calls[s]))
            /\ calls[s].trail = SubSeq(StrategyOrder(calls[s]), 1, Len(calls[s].trail))
            /\ Len(calls[s].direct) > 0 =>
                   /\ calls[s].trail = << "direct" >>
                   /\ Len(calls[s].result) = 1
                   /\ calls[s].result[1].verse.id = calls[s].direct[1].number

\* every passage of the result lies in the curated list of the theme it is
\* tagged with, and that theme is the classified one unless the fallback of
\* the classified theme yields nothing
FromCuratedList(c) ==
    \A i \in 1..Len(c.result) :
        LET verse == c.result[i].verse
            key   == CacheKey(c.theme)
        IN  /\ Coordinates(verse) \in SeqToSet(CuratedRefs(verse.theme))
            /\ verse.theme # c.theme =>
                   \/ key \notin DOMAIN apiCache
                   \/ Len(GetThematicVersesForGoal(<< apiCache[key] >>, c.theme, c.goal).value) = 0

\* C4 as stated: when every search of a find returned nothing, every passage
\* returned lies in the curated list of the classified theme (or of an
\* alternative theme when the classified one yields nothing), whatever
\* earlier calls stored in the cache.
ZeroResultsGiveCuratedPassages ==
    \A s \in Slots :
        Finished(calls[s], "find") /\ calls[s].allEmpty => FromCuratedList(calls[s])

\* C4, amended: the same, for a find that was served no collection from the
\* cache.
ZeroResultsGiveCuratedPassagesUnlessCached ==
    \A s \in Slots :
        Finished(calls[s], "find") /\ calls[s].allEmpty /\ ~calls[s].fromCache =>
            FromCuratedList(calls[s])

\* C4 happens: a find whose searches all returned nothing and that was served
\* nothing from the cache has returned passages.
CuratedPassagesReturned ==
    /\ Finished(calls[1], "find")
    /\ calls[1].allEmpty
    /\ ~calls[1].fromCache
    /\ Len(calls[1].result) > 0

\* C7: within a session, getAdditionalVersesForGoal returns no passage whose
\* id or whose (surah_number, ayah) pair is that of a passage obtained by an
\* earlier call of the session.
MoreReturnsOnlyNewPassages ==
    \A s \in Slots :
        Finished(calls[s], "more") =>
            \A i \in 1..Len(calls[s].result) : \A earlier \in calls[s].before :
                /\ calls[s].result[i].verse.id # earlier.id
                /\ Coordinates(calls[s].result[i].verse) # Coordinates(earlier)

SameScore(a, b) == ~ScoreGreater(a, b) /\ ~ScoreGreater(b, a)

\* C9 as stated: a find that returns a passage which the previous find for
\* the same goal returned gives it the same relevanceScore, also when the
\* reflection chosen for it differs.
SamePassageSameScore ==
    \A s \in Slots :
        Finished(calls[s], "find") =>
            \A i \in 1..Len(calls[s].result) : \A j \in 1..Len(calls[s].prev) :
                calls[s].result[i].verse.id = calls[s].prev[j].verse.id =>
                    SameScore(calls[s].result[i].relevanceScore, calls[s].prev[j].relevanceScore)

\* C9, amended: the relevanceScore returned for a passage is the score of its
\* translation followed by its reflection, so that two finds for the same
\* goal give the same passage the same score when they chose the same
\* reflection for it.
SamePassageAndReflectionSameScore ==
    \A s \in Slots :
        Finished(calls[s], "find") =>
            \A i \in 1..Len(calls[s].result) :
                /\ calls[s].result[i].relevanceScore =
                       CalculateRelevanceScore(calls[s].goal, calls[s].result[i].verse.text_en,
                                               calls[s].result[i].verse.reflection)
                /\ \A j \in 1..Len(calls[s].prev) :
                       /\ calls[s].result[i].verse.id = calls[s].prev[j].verse.id
                       /\ calls[s].result[i].verse.reflection = calls[s].prev[j].verse.reflection
                       => SameScore(calls[s].result[i].relevanceScore,
                                    calls[s].prev[j].relevanceScore)

\* C9 happens: two finds for "Improve patience" returned the same passage,
\* once with one reflection and once with another.
SamePassageTwoReflections ==
    /\ Finished(calls[1], "find")
    /\ calls[1].goal = "Improve patience"
    /\ \E i \in 1..Len(calls[1].result) : \E j \in 1..Len(calls[1].prev) :
           /\ calls[1].result[i].verse.id = calls[1].prev[j].verse.id
           /\ calls[1].result[i].verse.reflection # calls[1].prev[j].verse.reflection

---------------------------------------------------------------------------
(* Properties of the thematic cache *)

BothCalled == calls[1].kind = "thematic" /\ calls[2].kind = "thematic"

WithinTTL == calls[2].startedAt - calls[1].startedAt < CACHE_DURATION

SearchesIssued == Len(calls[1].issued) + Len(calls[2].issued)

\* the first call had returned a collection when the second one started
FirstAnsweredBeforeSecond ==
    /\ BothCalled
    /\ 1 \in calls[2].ended
    /\ Len(calls[1].result) > 0

FoundExpired ==
    /\ BothCalled
    /\ 1 \in calls[2].ended
    /\ Len(calls[1].stored) > 0
    /\ calls[2].startedAt >= calls[1].stored[1] + CACHE_DURATION

\* a call is served from the cache only before the expiry of the entry,
\* which is the time it was stored plus CACHE_DURATION
ServedOnlyBeforeExpiry ==
    \A s \in Slots :
        calls[s].fromCache =>
            \E o \in Slots \ { s } :
                /\ Len(calls[o].stored) > 0
                /\ calls[s].startedAt < calls[o].stored[1] + CACHE_DURATION
                /\ calls[s].result = calls[o].result

\* the call of slot s has replaced the entry of its theme and its expiry
Replaced(s) ==
    LET key == CacheKey(calls[s].theme)
    IN  /\ Len(calls[s].stored) = 1
        /\ key \in DOMAIN apiCache /\ key \in DOMAIN cacheExpiry
        /\ << apiCache[key] >> = calls[s].result
        /\ cacheExpiry[key] = calls[s].stored[1] + CACHE_DURATION

\* C6 as stated: a cached collection is returned only while now < expiry,
\* the expiry being the time of the store plus 5 minutes; a call that finds
\* the entry expired issues a new search, and the entry and its expiry are
\* replaced.
ExpiredEntryIsReplaced ==
    /\ ServedOnlyBeforeExpiry
    /\ FoundExpired =>
           /\ ~calls[2].fromCache
           /\ Len(calls[2].issued) = 1
           /\ calls[2].status = "returned" => Replaced(2)

\* C6, amended: the same, the entry and its expiry being replaced when the
\* new search returns; when it fails the call returns null and the expired
\* entry stays as the first call stored it.
ExpiredEntryIsReplacedUnlessSearchFails ==
    /\ ServedOnlyBeforeExpiry
    /\ FoundExpired =>
           /\ ~calls[2].fromCache
           /\ Len(calls[2].issued) = 1
           /\ calls[2].status = "returned" /\ Len(calls[2].result) > 0 => Replaced(2)
           /\ calls[2].status = "returned" /\ Len(calls[2].result) = 0 =>
                  /\ calls[2].stored = << >>
                  /\ Replaced(1)

\* C6 happens: the second call found the entry expired, searched again and
\* has returned the collection it stored.
ExpiredEntryReplaced ==
    /\ FoundExpired
    /\ calls[2].status = "returned"
    /\ Len(calls[2].result) > 0
    /\ Replaced(2)

---------------------------------------------------------------------------
(* Properties of the SmartGuidance component *)

Displayed == ~loading /\ ~loadingMore

\* C8: after any sequence of initial loads and load-more completions, the
\* displayed guidance list has no two entries with the same verse id and no
\* two entries with the same (surah_number, ayah) pair.
GuidanceHasNoDuplicates ==
    Displayed =>
        \A i, j \in 1..Len(guidance) :
            i # j => /\ guidance[i].verse.id # guidance[j].verse.id
                     /\ Coordinates(guidance[i].verse) # Coordinates(guidance[j].verse)

---------------------------------------------------------------------------
(* Properties of the classifier *)

ExerciseGoal == "Build a daily exercise habit"

Classified(goal) == pPc = "classified" /\ pGoal = goal

\* C10 as stated: the goal "Build a daily exercise habit" is classified as
\* 'fitness'.
ExerciseGoalIsFitness == Classified(ExerciseGoal) => pTheme = "fitness"

\* C10, amended: the keywords of "Build a daily exercise habit" include
\* exercise, daily and habit, 'fitness' scores above zero (1 for the synonym
\* exercise), and the theme returned is 'change', which scores 1.5, more than
\* every other theme.
ExerciseGoalIsChange ==
    Classified(ExerciseGoal) =>
        /\ { "exercise", "daily", "habit" } \subseteq SeqToSet(pKeywords)
        /\ ThemeScore2("fitness", pKeywords) = 2
        /\ ThemeScore2("change", pKeywords) = 3
        /\ \A theme \in Themes \ { "change" } : ThemeScore2(theme, pKeywords) < 3
        /\ pTheme = "change"

\* C10 happens: "Build a daily exercise habit" has been classified.
ExerciseGoalClassified == Classified(ExerciseGoal) /\ pTheme # ""

\* the token is a synonym of some theme in keywordMapping
SynonymOfSomeTheme(token) == \E theme \in Themes : token \in keywordMapping[theme]

\* the token is a substring of some practical-guidance string
InSomeGuidance(token) ==
    \E theme \in Themes : \E k \in 1..Len(PracticalGuidanceLower[theme]) :
        Includes(PracticalGuidanceLower[theme][k], token)

\* no token matches a keyword: none is a synonym of a theme, and none but the
\* tokens that punctuation stripping left empty occurs in a guidance string
NoKeywordMatch(keywords) ==
    \A i \in 1..Len(keywords) :
        /\ ~SynonymOfSomeTheme(keywords[i])
        /\ keywords[i] # "" => ~InSomeGuidance(keywords[i])

\* C11: for every token sequence in which no token matches a keyword of any
\* theme, the sequences with tokens that punctuation stripping left empty
\* included, the classifier returns the default theme 'guidance'.
UnmatchedTokensGiveGuidance ==
    pPc = "classified" /\ NoKeywordMatch(pKeywords) => pTheme = "guidance"

---------------------------------------------------------------------------
(* Properties of the query builder *)

\* the string is empty or made of white space only
Blank(q) == \A i \in 1..Len(q) : IsSpace(Char(q, i))

\* the candidate list of which pQueries keeps the first occurrences
CandidatesBuilt ==
    { CandidateQueries(pGoal, pKeywords, pTheme, tenths) : tenths \in RandomTenths }

\* the position of the first occurrence of q in the list
FirstAt(list, q) == CHOOSE i \in 1..Len(list) : list[i] = q /\ \A j \in 1..(i - 1) : list[j] # q

\* C12: for every goal text, keyword list and theme, a blank goal, an empty
\* keyword list and the theme 'guidance' included, buildSearchQueries returns
\* a non-empty list with no empty or blank string and no string twice, in the
\* order in which the strings first occur among the candidates, and with
\* the goal text first whenever the goal text is not blank.
QueriesAreCleanAndOrdered ==
    pPc = "built" =>
        /\ Len(pQueries) > 0
        /\ \A i \in 1..Len(pQueries) : ~Blank(pQueries[i])
        /\ \A i, j \in 1..Len(pQueries) : i # j => pQueries[i] # pQueries[j]
        /\ \E candidates \in CandidatesBuilt :
              /\ SeqToSet(pQueries) = { q \in SeqToSet(candidates) : ~Blank(q) }
              /\ \A i, j \in 1..Len(pQueries) :
                    i < j => FirstAt(candidates, pQueries[i]) < FirstAt(candidates, pQueries[j])
        /\ ~Blank(pGoal) => pQueries[1] = pGoal

\* C12 happens: the queries were built for a blank goal, no keyword usable and
\* the theme 'guidance', and for a goal that is its own and only keyword.
BlankGoalQueriesBuilt ==
    /\ pPc = "built"
    /\ Blank(pGoal)
    /\ pKeywords \in { << >>, << "", "" >> }
    /\ pTheme = "guidance"
    /\ Len(pQueries) = 1

---------------------------------------------------------------------------
(* Properties of the relevance scorer *)

\* C13: for every goal text and every passage text, empty texts, repeated
\* goal tokens and tokens left empty by the stripping included,
\* calculateRelevanceScore returns a value v with 0 <= v <= 0.95.
ScoreWithinRange ==
    pPc = "scored" =>
        /\ pScore.status = "returned"
        /\ 0 <= pScore.units
        /\ pScore.units <= 95 * pScore.den

\* the tokens of the goal and of the passage (translation, space, reflection)
GoalTokens == ExtractKeywords(pGoal)
PassageTokens == ExtractKeywords(pText \o " " \o pScore.reflection)

\* a is a substring of b or b is a substring of a
SubstringMatch(a, b) == Includes(a, b) \/ Includes(b, a)

\* E, P and S of the formula, counted over the goal tokens
ExactCount ==
    Cardinality({ i \in 1..Len(GoalTokens) :
        \E j \in 1..Len(PassageTokens) : PassageTokens[j] = GoalTokens[i] })
PartialCount ==
    Cardinality({ i \in 1..Len(GoalTokens) :
        \E j \in 1..Len(PassageTokens) : SubstringMatch(GoalTokens[i], PassageTokens[j]) })
SemanticCount ==
    Cardinality({ i \in 1..Len(GoalTokens) :
        /\ GoalTokens[i] \in DOMAIN semanticMap
        /\ \E word \in SeqToSet(semanticMap[GoalTokens[i]]) :
              \E j \in 1..Len(PassageTokens) : SubstringMatch(word, PassageTokens[j]) })

\* C14: whenever calculateRelevanceScore returns, its value is
\* min(0.95, (1.0*E + 0.7*(P - E) + 0.5*S) / max(1, N)), with N the number of
\* goal tokens, E those equal to a passage token, P those that are a substring
\* of or contain a passage token, S those that are keys of the semantic table
\* with an expansion word that substring-matches a passage token.  In
\* hundredths: units / den = min(95, (100*E + 70*(P - E) + 50*S) / max(1, N)).
ScoreEqualsWeightedFormula ==
    pPc = "scored" /\ pScore.status = "returned" =>
        /\ pScore.den = Max(1, Len(GoalTokens))
        /\ pScore.units =
              Min(95 * pScore.den,
                  100 * ExactCount + 70 * (PartialCount - ExactCount) + 50 * SemanticCount)

\* C14 happens: a goal of four tokens scored with one exact, one more partial
\* and one semantic match: (1.0 + 0.7 + 0.5) / 4 = 0.55, below the cap.
MixedMatchesScored ==
    /\ pPc = "scored"
    /\ pScore.status = "returned"
    /\ Len(GoalTokens) = 4
    /\ ExactCount = 1 /\ PartialCount = 2 /\ SemanticCount = 1
    /\ pScore.units = 220

---------------------------------------------------------------------------
(* Properties of the remote calls of a lookup *)

\* the remote calls that a running lookup has started and that have not settled
InFlight(c) == Len(c.pending) + c.stray

\* C15 as stated: during a lookup at most one remote call is in flight at any
\* time.
AtMostOneRemoteCallInFlight ==
    \A s \in Slots : calls[s].status = "running" => InFlight(calls[s]) <= 1

\* C15, amended: a lookup awaits one remote search at a time (query loop,
\* direct search, thematic search), and none while it converts; in the
\* curated fallback it starts the verse lookup and the surah lookup of a
\* reference together and awaits both, so that two remote calls are in
\* flight; a lookup left behind by a failed partner may still be in flight
\* when the next calls are started, one at most for each failed remote call.
OneSearchOrOnePairAwaited ==
    \A s \in Slots : calls[s].status = "running" =>
        /\ calls[s].pc \in { "query", "direct", "tc_search" } =>
              calls[s].pending = << "searchVerses" >>
        /\ calls[s].pc = "tc_fetch" => calls[s].pending = << "getVerse", "getSurah" >>
        /\ calls[s].pc = "random" => calls[s].pending = << "getRandomVerse" >>
        /\ calls[s].pc = "convert" => calls[s].pending = << >>
        /\ calls[s].stray <= failures
        /\ InFlight(calls[s]) <= 2 + failures

\* C15 happens: a lookup in its curated fallback awaits the two lookups of a
\* reference while a lookup of the reference before is still in flight.
ThreeRemoteCallsInFlight ==
    \E s \in Slots :
        /\ calls[s].status = "running"
        /\ calls[s].kind \in { "find", "more", "thematic" }
        /\ calls[s].pc = "tc_fetch"
        /\ InFlight(calls[s]) = 3

\* C16: within one findVersesForGoal call no search text is submitted to the
\* remote search more than once, whatever the remote returns.
NoQuerySubmittedTwice ==
    \A s \in Slots : calls[s].kind = "find" =>
        \A i, j \in 1..Len(calls[s].issued) :
            calls[s].issued[i] = calls[s].issued[j] => i = j

\* the raw matches at positions k, k+1, k+2 (0-based, those that exist) of the
\* accumulated matches of a call, ranked by descending score
RankedWindow(c) == Slice(SortByRelevance(c.goal, c.aggregated), c.count, c.count + 3)

\* C17: getAdditionalVersesForGoal(goal, k) that accumulated at least one raw
\* match returns MatchResults for exactly the raw matches at positions k, k+1,
\* k+2 of the ranking, in that order: at most 3, and none when k is at least
\* the number of accumulated matches.
MoreReturnsRankedWindow ==
    \A s \in Slots :
        Finished(calls[s], "more") /\ Len(calls[s].aggregated) >= 1 =>
            /\ Len(calls[s].result) = Len(RankedWindow(calls[s]))
            /\ Len(calls[s].result) <= 3
            /\ \A i \in 1..Len(calls[s].result) :
                   calls[s].result[i].verse.id = RankedWindow(calls[s])[i].number

\* twice what one token adds to the score of a theme: 1 when the token is in
\* the synonym table of the theme, 0.5 when it is a substring of one of the
\* practical-guidance strings of the theme
TokenPoints2(theme, token) ==
    (IF token \in keywordMapping[theme] THEN 2 ELSE 0)
      + (IF \E k \in 1..Len(PracticalGuidanceLower[theme]) :
               Includes(PracticalGuidanceLower[theme][k], token)
         THEN 1 ELSE 0)

RECURSIVE AccumulatedPoints2(_, _)
AccumulatedPoints2(theme, tokens) ==
    IF Len(tokens) = 0 THEN 0
    ELSE TokenPoints2(theme, Head(tokens)) + AccumulatedPoints2(theme, Tail(tokens))

\* the scores of the themes for the classified tokens, in registration order
Totals2 == [ i \in 1..Len(ThemeOrder) |-> AccumulatedPoints2(ThemeOrder[i], pKeywords) ]

\* total is highest at position i, and no earlier position reaches it
FirstHighest(total, i) ==
    /\ \A j \in 1..Len(ThemeOrder) : total[j] <= total[i]
    /\ \A j \in 1..(i - 1) : total[j] < total[i]

\* C18: determineTheme returns the theme with the highest accumulated score,
\* the one registered first among the themes that share the highest score,
\* and 'guidance' when every score is zero.
HighestScoreFirstRegisteredWins ==
    pPc = "classified" =>
        LET total == Totals2
        IN  IF \A i \in 1..Len(ThemeOrder) : total[i] = 0
            THEN pTheme = "guidance"
            ELSE \E i \in 1..Len(ThemeOrder) :
                    pTheme = ThemeOrder[i] /\ FirstHighest(total, i)

\* C18 happens: two themes share the highest score for tokens that are words,
\* and the one registered first has been returned.
TieResolvedToFirstRegistered ==
    /\ pPc = "classified"
    /\ \A k \in 1..Len(pKeywords) : pKeywords[k] # ""
    /\ LET total == Totals2
       IN  \E i, j \in 1..Len(ThemeOrder) :
              /\ i < j
              /\ total[i] > 0
              /\ total[i] = total[j]
              /\ FirstHighest(total, i)
              /\ pTheme = ThemeOrder[i]

---------------------------------------------------------------------------
(* Properties of the query loop *)

\* C19: in the query loop of findVersesForGoal (threshold 5) and of
\* getAdditionalVersesForGoal (threshold 10) the accumulated raw matches never
\* hold two records with the same number, and no query of the list is under
\* way once the number of accumulated matches has reached the threshold.
LoopMergesDistinctAndStopsAtThreshold ==
    \A s \in Slots : calls[s].kind \in { "find", "more" } =>
        /\ \A i, j \in 1..Len(calls[s].aggregated) :
               calls[s].aggregated[i].number = calls[s].aggregated[j].number => i = j
        /\ calls[s].pc = "query" =>
               Len(calls[s].aggregated) < (IF calls[s].kind = "find" THEN 5 ELSE 10)

\* C19 happens: a load-more call merged answers that share a verse, reached
\* 11 distinct matches and left queries of its list unissued.
MoreLoopStoppedAtThreshold ==
    /\ calls[1].kind = "more"
    /\ Len(calls[1].aggregated) = 11
    /\ calls[1].pc # "query"
    /\ calls[1].qi < Len(calls[1].queries)

\* C20: when the remote search fails for a query of the list, the raw matches
\* accumulated by the earlier queries are kept unchanged and the next query
\* of the list, if there is one, is submitted: the failure neither discards
\* earlier results nor ends the loop.
FailedQueryKeepsMatchesAndLoopGoesOn ==
    [][ \A s \in Slots :
          (calls[s].status = "running" /\ calls[s].pc = "query" /\ failures' = failures + 1) =>
              /\ calls'[s].aggregated = calls[s].aggregated
              /\ IF calls[s].qi < Len(calls[s].queries)
                 THEN /\ calls'[s].status = "running"
                      /\ calls'[s].pc = "query"
                      /\ calls'[s].qi = calls[s].qi + 1
                      /\ calls'[s].issued = Append(calls[s].issued, calls[s].queries[calls[s].qi + 1])
                 ELSE calls'[s].pc # "query" ]_vars

\* C20 happens: a query failed while the call held raw matches, and the next
\* query of the list is under way with these matches still held.
QueryUnderWayAfterFailure ==
    \E s \in Slots :
        /\ calls[s].status = "running"
        /\ calls[s].pc = "query"
        /\ Len(calls[s].held) > 0
        /\ calls[s].held[Len(calls[s].held)] > 0
        /\ Len(calls[s].aggregated) >= calls[s].held[Len(calls[s].held)]

---------------------------------------------------------------------------
(* Properties of the cache under concurrent calls *)

\* the call of slot s stores a collection in this step
Stores(s) == Len(calls'[s].stored) > Len(calls[s].stored)

---------------------------------------------------------------------------
(* Properties of the component whose goal changes *)

\* C22: when the goal changes while a lookup is under way, the result of the
\* earlier lookup is discarded: once every lookup has ended and every
\* loadGuidance has resumed, the list displayed is the result of the lookup
\* for the goal text of the current props.
LatestGoalIsDisplayed ==
    (made = 2 /\ awaiting = {}) =>
        /\ calls[2].goal = GoalText(props)
        /\ guidance = calls[2].result

---------------------------------------------------------------------------
(* Termination of the lookups *)

\* the thematic collections a lookup asked for
ThemesTried(c) == Cardinality({ i \in 1..Len(c.trail) : c.trail[i] # "direct" })

\* the remote calls a lookup has issued: its searches and the two lookups of
\* each curated reference
RemoteCallsIssued(c) == Len(c.issued) + 2 * c.fetches

\* C23: every findVersesForGoal and getAdditionalVersesForGoal call
\* eventually completes and the loading and loadingMore flags eventually
\* return to false, when every remote call eventually resolves or fails; the
\* remote calls issued by a lookup are at most the queries of its list, the
\* direct search, and for each thematic collection it asks for one search
\* and the two lookups of at most 3 curated references.  At every moment
\* there is a later one at which no lookup is running and both flags are
\* false, and a running lookup always awaits a step that settles.
LookupsCompleteWithBoundedCalls ==
    /\ []<>(/\ \A s \in Slots : calls[s].status # "running"
            /\ ~loading
            /\ ~loadingMore)
    /\ [](\A s \in Slots :
            /\ calls[s].status = "running" =>
                  calls[s].pc \in { "query", "convert", "direct", "tc_search", "tc_fetch" }
            /\ ThemesTried(calls[s]) <= Len(AlternativeThemes) + 2
            /\ RemoteCallsIssued(calls[s]) <=
                  Len(calls[s].queries) + 1 + ThemesTried(calls[s]) * (1 + 2 * 3))

\* C23 happens: a lookup went through its whole query list, the direct
\* search and a thematic fallback with curated lookups, one remote call
\* failed, the lookup is over and the list is displayed.
LookupOverAfterEveryStrategy ==
    /\ calls[1].kind = "find" /\ calls[1].status = "returned"
    /\ calls[1].qi = Len(calls[1].queries)
    /\ Len(calls[1].direct) = 0
    /\ calls[1].fetches > 0
    /\ failures > 0
    /\ ~loading

\* the remote search of the getThematicCollection call of slot s raises in this step
SearchRaises(s) ==
    /\ calls[s].status = "running"
    /\ calls[s].pc = "tc_search"
    /\ calls'[s] # calls[s]
    /\ failures' = failures + 1

\* C24: when the remote search raises during getThematicCollection the call
\* returns null and both cache maps are left as they were, and a call for
\* the theme made after it issues a remote search of its own; a step that
\* stores a collection is never the step of a search that raises, and the
\* storing call returns the collection.
FailedSearchLeavesCacheAlone ==
    /\ [][ \A s \in Slots :
             /\ SearchRaises(s) =>
                   /\ calls'[s].status = "returned"
                   /\ calls'[s].result = << >>
                   /\ calls'[s].stored = calls[s].stored
                   /\ apiCache' = apiCache
                   /\ cacheExpiry' = cacheExpiry
             /\ Stores(s) => ~SearchRaises(s) /\ calls'[s].result # << >> ]_vars
    /\ [](\A s, o \in Slots :
             ( /\ calls[s].kind = "thematic" /\ calls[o].kind = "thematic"
               /\ o \in calls[s].ended
               /\ calls[o].result = << >> )
             => /\ ~calls[s].fromCache
                /\ calls[s].issued = << GetThemeSearchTerms(calls[s].theme) >>)

\* C24 happens: the search of the first call raised, the call returned null
\* with nothing in the cache, and a second call for the theme was made.
SecondCallAfterFailedSearch ==
    /\ calls[1].kind = "thematic" /\ calls[1].status = "returned"
    /\ calls[1].result = << >>
    /\ calls[2].kind = "thematic"
    /\ 1 \in calls[2].ended
    /\ failures = 1

---------------------------------------------------------------------------
(***************************************************************************)
(* The goals dashboard (GoalsPage, GoalsDashboard) and its GoalsList.      *)
(*                                                                         *)
(* A goal is a record of the fields of the Goal interface; an optional     *)
(* field (dueDate, lastCompleted) is the empty sequence when it is absent  *)
(* and a one-element sequence when it is present.  Time is counted in      *)
(* ticks, TicksPerDay of them in a day, from Monday 23 December 2024,      *)
(* 00:00 local time, so that the first days of the calendar cross the end  *)
(* of a week, of a month and of a year.                                    *)
(***************************************************************************)

TicksPerDay == 2

\* the days since Monday 23 December 2024 of a time
DayOf(t) == t \div TicksPerDay

\* the time lies in December 2024 (days 0..8), otherwise in January 2025
InDecember(t) == DayOf(t) < 9

\* Date.prototype.getDay: 0 is Sunday, 1 is Monday
GetDay(t) == (DayOf(t) + 1) % 7

\* Date.prototype.getDate: the day of the month
GetDate(t) == IF InDecember(t) THEN 23 + DayOf(t) ELSE DayOf(t) - 8

\* Date.prototype.getMonth: 0 is January
GetMonth(t) == IF InDecember(t) THEN 11 ELSE 0

GetFullYear(t) == IF InDecember(t) THEN 2024 ELSE 2025

\* Date.prototype.toDateString: weekday, month, day of the month and year
ToDateString(t) == << GetDay(t), GetMonth(t), GetDate(t), GetFullYear(t) >>

\* Date.prototype.setDate(n): the day of the month becomes n; a value outside
\* the month moves into the month before or after
SetDate(t, n) == t + (n - GetDate(t)) * TicksPerDay

\* Date.prototype.setHours(0, 0, 0, 0)
SetHoursMidnight(t) == DayOf(t) * TicksPerDay

Cadences == { "daily", "weekly", "monthly", "yearly" }

\* shouldResetRecurringGoal(goal) at the time t of new Date()
ShouldResetRecurringGoal(goal, t) ==
    IF goal.recurring = "none" \/ goal.lastCompleted = << >>
    THEN FALSE
    ELSE LET lastCompleted == goal.lastCompleted[1]
             startOfWeek == SetHoursMidnight(SetDate(t, GetDate(t) - GetDay(t) + 1))
         IN  CASE goal.recurring = "daily" ->
                      ToDateString(lastCompleted) # ToDateString(t)
               [] goal.recurring = "weekly" -> lastCompleted < startOfWeek
               [] goal.recurring = "monthly" ->
                      \/ GetMonth(lastCompleted) # GetMonth(t)
                      \/ GetFullYear(lastCompleted) # GetFullYear(t)
               [] OTHER -> FALSE

\* { ...goal, completed: false, lastCompleted: undefined }
ResetGoal(goal) == [ goal EXCEPT !.completed = FALSE, !.lastCompleted = << >> ]

\* savedGoals.map(goal => shouldResetRecurringGoal(goal) ? reset : goal)
NormalizeGoals(savedGoals, t) ==
    [ i \in 1..Len(savedGoals) |->
        IF ShouldResetRecurringGoal(savedGoals[i], t)
        THEN ResetGoal(savedGoals[i])
        ELSE savedGoals[i] ]

\* the load effect: reads the store and queues setGoals(normalizedGoals)
LoadEffect ==
    /\ phase = "load"
    /\ queued' = Append(queued, NormalizeGoals(storage, clock))
    /\ phase' = "save"
    /\ UNCHANGED << storage, goals, pass, strict, clock, editingGoal, selectedGoal,
                    newlyCreatedGoalId, guidanceGoalId, showGuidance, removed >>
    /\ UNCHANGED << pureVars, engineVars, uiVars, swVars >>

\* the save effect: storage.set('quranlife-goals', goals) with the goals of
\* the render the effect belongs to; the spotlight effects follow it
SaveEffect ==
    /\ phase = "save"
    /\ storage' = goals
    /\ phase' = "spot"
    /\ UNCHANGED << goals, queued, pass, strict, clock, editingGoal, selectedGoal,
                    newlyCreatedGoalId, guidanceGoalId, showGuidance, removed >>
    /\ UNCHANGED << pureVars, engineVars, uiVars, swVars >>

\* goals.filter(goal => !goal.completed) and goals.filter(goal => goal.completed)
ActiveGoals(gs) == SelectSeq(gs, LAMBDA g : ~g.completed)
CompletedGoals(gs) == SelectSeq(gs, LAMBDA g : g.completed)

\* activeGoals.filter(goal => goal.dueDate).sort(by due time).slice(0, 3):
\* ascending by date, goals of equal date in their order in the list
DueSoonGoals(gs) ==
    LET due == SelectSeq(ActiveGoals(gs), LAMBDA g : g.dueDate # << >>)
        Place(i) == 1 + Cardinality({ j \in 1..Len(due) : due[j].dueDate[1] < due[i].dueDate[1] })
                      + Cardinality({ j \in 1..(i - 1) : due[j].dueDate[1] = due[i].dueDate[1] })
    IN  Slice([ k \in 1..Len(due) |-> due[CHOOSE i \in 1..Len(due) : Place(i) = k] ], 0, 3)

\* dueSoonGoals[0] || activeGoals[0] || completedGoals[0] || null, the goal
\* as a one-element sequence and null as the empty one
FallbackGoal(gs) ==
    CASE DueSoonGoals(gs) # << >> -> << DueSoonGoals(gs)[1] >>
      [] ActiveGoals(gs) # << >> -> << ActiveGoals(gs)[1] >>
      [] CompletedGoals(gs) # << >> -> << CompletedGoals(gs)[1] >>
      [] OTHER -> << >>

\* goals.find(goal => goal.id === id) || null
FindGoal(gs, id) ==
    IF \E i \in 1..Len(gs) : gs[i].id = id
    THEN << gs[CHOOSE i \in 1..Len(gs) :
                  gs[i].id = id /\ \A j \in 1..(i - 1) : gs[j].id # id] >>
    ELSE << >>

\* the spotlightGoal memo of a render with the goals gs and the chosen id
SpotlightGoalOf(gs, id) == IF id # NoId THEN FindGoal(gs, id) ELSE FallbackGoal(gs)

spotlightGoal == SpotlightGoalOf(goals, guidanceGoalId)

\* the passes of the mount effects React makes
MountPasses == IF strict THEN 2 ELSE 1

\* the two spotlight effects, which run after the save effect: the first
\* chooses the fallback goal when no id is chosen, the second hides the
\* guidance panel when the render had no spotlight goal.  They end the pass
\* of the effects: the mount effects run again under StrictMode, a queued
\* setGoals brings the next render.
SpotlightEffects ==
    /\ phase = "spot"
    /\ guidanceGoalId' = IF guidanceGoalId = NoId /\ FallbackGoal(goals) # << >>
                         THEN FallbackGoal(goals)[1].id
                         ELSE guidanceGoalId
    /\ showGuidance' = IF spotlightGoal = << >> THEN FALSE ELSE showGuidance
    /\ pass' = IF pass < MountPasses THEN pass + 1 ELSE pass
    /\ phase' = CASE pass + 1 < MountPasses -> "load"
                  [] queued # << >> -> "render"
                  [] OTHER -> "ready"
    /\ UNCHANGED << storage, goals, queued, strict, clock, editingGoal, selectedGoal,
                    newlyCreatedGoalId, removed >>
    /\ UNCHANGED << pureVars, engineVars, uiVars, swVars >>

\* the render that follows the mount effects: of the values given to
\* setGoals the last one becomes the state, and the effects that depend on
\* the goals run again
Render ==
    /\ phase = "render"
    /\ goals' = queued[Len(queued)]
    /\ queued' = << >>
    /\ phase' = "save"
    /\ UNCHANGED << storage, pass, strict, clock, editingGoal, selectedGoal,
                    newlyCreatedGoalId, guidanceGoalId, showGuidance, removed >>
    /\ UNCHANGED << pureVars, engineVars, uiVars, swVars >>

\* a goal as the add-goal form makes it, before any id is given
FormGoal == [ id |-> NoId, title |-> "Read", description |-> "", category |-> "personal",
              priority |-> "medium", dueDate |-> << >>, recurring |-> "none",
              completed |-> FALSE, lastCompleted |-> << >> ]

\* the effects of the last render have run and the page waits for the user
Ready == phase = "ready"

\* the state of the dashboard that a handler of GoalsList leaves alone
ListFrame == UNCHANGED << storage, queued, pass, strict, guidanceGoalId, showGuidance >>

\* nothing outside the goals dashboard changes
OnlyDashboard == UNCHANGED << pureVars, engineVars, uiVars, swVars >>

\* toggleGoal(goalId): the goal is completed now, or not completed any more;
\* toISOString keeps the time to the millisecond, so the stored string stands
\* for the time itself
ToggleGoal(goalId) ==
    /\ Ready
    /\ goals' = [ i \in 1..Len(goals) |->
                    IF goals[i].id # goalId THEN goals[i]
                    ELSE [ goals[i] EXCEPT
                             !.completed = ~goals[i].completed,
                             !.lastCompleted = IF ~goals[i].completed
                                               THEN << clock >> ELSE << >> ] ]
    /\ phase' = "save"
    /\ UNCHANGED << clock, editingGoal, selectedGoal, newlyCreatedGoalId, removed >>
    /\ ListFrame
    /\ OnlyDashboard

\* the goal that addGoal(newGoal) puts first in the list, with the id it
\* takes from Date.now() at the time t
AddedGoal(newGoal, t) == [ newGoal EXCEPT !.id = ToString(t) ]

\* the most goals the list holds in the model
MaxGoals == 2

\* the last value of the clock in the model
MaxClock == 3

\* the times Date.now() can give to a second call made after a first one
\* at the time t: the millisecond has passed or it has not
LaterReadings(t) == { u \in { t, t + 1 } : u <= MaxClock }

\* handleSubmit of the add-goal form: goalId is computed from Date.now(),
\* then onAddGoal computes the id of the stored goal from Date.now() again
HandleSubmit(form) ==
    /\ Ready
    /\ Len(goals) < MaxGoals
    /\ Trim(form.title) # ""
    /\ \E later \in LaterReadings(clock) :
          /\ goals' = << AddedGoal([ form EXCEPT !.completed = FALSE ], later) >> \o goals
          /\ clock' = later
    /\ newlyCreatedGoalId' = ToString(clock)
    /\ selectedGoal' = ToString(clock)
    /\ phase' = "save"
    /\ UNCHANGED << editingGoal, removed >>
    /\ ListFrame
    /\ OnlyDashboard

\* the timer of handleSubmit fires
ClearNewlyCreated ==
    /\ newlyCreatedGoalId # NoId
    /\ newlyCreatedGoalId' = NoId
    /\ UNCHANGED << goals, phase, clock, editingGoal, selectedGoal, removed >>
    /\ ListFrame
    /\ OnlyDashboard

\* handleQuickAddHabitForGoal(goal): a daily habit is added for the goal and
\* the goal's guidance panel stays open
HandleQuickAddHabitForGoal(goal) ==
    /\ Ready
    /\ Len(goals) < MaxGoals
    /\ goals' = << AddedGoal([ FormGoal EXCEPT
                                 !.title = goal.title \o " - Daily Practice",
                                 !.description = goal.description,
                                 !.category = goal.category,
                                 !.priority = goal.priority,
                                 !.dueDate = << SetHoursMidnight(clock) >>,
                                 !.recurring = "daily" ], clock) >> \o goals
    /\ selectedGoal' = goal.id
    /\ phase' = "save"
    /\ UNCHANGED << clock, editingGoal, newlyCreatedGoalId, removed >>
    /\ ListFrame
    /\ OnlyDashboard

\* handleEditStart(goal)
HandleEditStart(goal) ==
    /\ Ready
    /\ editingGoal' = goal.id
    /\ UNCHANGED << goals, phase, clock, selectedGoal, newlyCreatedGoalId, removed >>
    /\ ListFrame
    /\ OnlyDashboard

\* editGoal(goalId, updatedGoal): { ...goal, ...updatedGoal } for the goal of
\* that id, where updatedGoal holds what handleEditSubmit passes
EditGoal(gs, goalId, updatedGoal) ==
    [ i \in 1..Len(gs) |->
        IF gs[i].id = goalId
        THEN [ gs[i] EXCEPT !.title = updatedGoal.title,
                            !.description = updatedGoal.description,
                            !.category = updatedGoal.category,
                            !.priority = updatedGoal.priority,
                            !.dueDate = updatedGoal.dueDate,
                            !.recurring = updatedGoal.recurring,
                            !.completed = updatedGoal.completed ]
        ELSE gs[i] ]

\* handleEditSubmit: onEditGoal(editingGoal, { ...editGoal, completed: false })
HandleEditSubmit(form) ==
    /\ Ready
    /\ Trim(form.title) # "" /\ editingGoal # NoId
    /\ goals' = EditGoal(goals, editingGoal, [ form EXCEPT !.completed = FALSE ])
    /\ editingGoal' = NoId
    /\ phase' = "save"
    /\ UNCHANGED << clock, selectedGoal, newlyCreatedGoalId, removed >>
    /\ ListFrame
    /\ OnlyDashboard

\* handleRemove(goalId), confirmed: removeGoal(goalId)
HandleRemove(goalId) ==
    /\ Ready
    /\ goals' = SelectSeq(goals, LAMBDA g : g.id # goalId)
    /\ removed' = removed \cup { goalId }
    /\ phase' = "save"
    /\ UNCHANGED << clock, editingGoal, selectedGoal, newlyCreatedGoalId >>
    /\ ListFrame
    /\ OnlyDashboard

\* setGuidanceGoalId(goal.id); setShowGuidance(true), after which the
\* spotlight effects run
Spotlight(goal) ==
    /\ Ready
    /\ guidanceGoalId' = goal.id
    /\ showGuidance' = TRUE
    /\ phase' = "spot"
    /\ UNCHANGED << storage, goals, queued, pass, strict, clock, editingGoal,
                    selectedGoal, newlyCreatedGoalId, removed >>
    /\ OnlyDashboard

\* handleGoalClick(goal), from the calendar
HandleGoalClick(goal) == Spotlight(goal)

\* handleFocusGoal(goal), from the focus list
HandleFocusGoal(goal) == Spotlight(goal)

\* the clock moves on
ClockTick ==
    /\ clock < MaxClock
    /\ clock' = clock + 1
    /\ UNCHANGED << storage, goals, queued, phase, pass, strict, editingGoal, selectedGoal,
                    newlyCreatedGoalId, guidanceGoalId, showGuidance, removed >>
    /\ OnlyDashboard

\* what the user can submit in the add-goal form; the last title is blank
AddForms == { FormGoal,
              [ FormGoal EXCEPT !.title = "Fast", !.priority = "high", !.dueDate = << 4 >> ],
              [ FormGoal EXCEPT !.title = " " ] }

\* what the user can submit in the edit form
EditForms == { [ FormGoal EXCEPT !.title = "Pray", !.description = "slowly",
                                 !.category = "spiritual", !.priority = "high",
                                 !.dueDate = << 2 >>, !.recurring = "weekly" ] }

\* a goal added and completed in an earlier session, at the time 0
StoredGoal == [ FormGoal EXCEPT !.id = ToString(0), !.title = "Give", !.recurring = "daily",
                                !.completed = TRUE, !.lastCompleted = << 0 >> ]

\* the dashboard about to mount, over an empty store or over a stored goal,
\* with or without StrictMode
DashInit ==
    /\ EngineInit /\ PureIdle /\ UiInit /\ SwIdle /\ ListIdle
    /\ storage \in { << >>, << StoredGoal >> }
    /\ strict \in BOOLEAN
    /\ clock = 1
    /\ goals = << >>
    /\ queued = << >>
    /\ phase = "load"
    /\ pass = 0

\* the goal of the list the user acts on
GoalsShown == { goals[i] : i \in 1..Len(goals) }

\* the effects of the mount and of the renders that follow
EffectsNext == LoadEffect \/ SaveEffect \/ SpotlightEffects \/ Render

\* the user adds, completes and edits goals
EditNext ==
    \/ EffectsNext
    \/ \E f \in AddForms : HandleSubmit(f)
    \/ \E g \in GoalsShown : ToggleGoal(g.id)
    \/ \E g \in GoalsShown : HandleEditStart(g)
    \/ \E f \in EditForms : HandleEditSubmit(f)

SpecEdit == DashInit /\ [][EditNext]_vars

\* the dashboard about to mount over a stored goal
MountInit == DashInit /\ storage # << >>

\* the dashboard mounts over the stored goal; the user adds, completes and
\* removes goals
MountNext ==
    \/ EffectsNext
    \/ \E f \in AddForms : HandleSubmit(f)
    \/ \E g \in GoalsShown : ToggleGoal(g.id)
    \/ \E g \in GoalsShown : HandleRemove(g.id)

SpecMount == MountInit /\ [][MountNext]_vars

\* the user adds goals with the form and with the quick-add button while the
\* clock runs
AddNext ==
    \/ EffectsNext
    \/ \E f \in AddForms : HandleSubmit(f)
    \/ \E g \in GoalsShown : HandleQuickAddHabitForGoal(g)
    \/ ClearNewlyCreated
    \/ ClockTick

SpecAdd == DashInit /\ [][AddNext]_vars

\* the user adds, removes and completes goals and chooses the spotlight
\* from the focus list and from the calendar
SpotlightNext ==
    \/ EffectsNext
    \/ \E f \in AddForms : HandleSubmit(f)
    \/ \E g \in GoalsShown : HandleRemove(g.id)
    \/ \E g \in GoalsShown : ToggleGoal(g.id)
    \/ \E g \in GoalsShown : HandleFocusGoal(g)
    \/ \E g \in GoalsShown : HandleGoalClick(g)

SpecSpotlight == DashInit /\ [][SpotlightNext]_vars

\* the days of the calendar the stored goals and the clock are taken from
CalendarDays == 21

CalendarTicks == 0..(CalendarDays * TicksPerDay - 1)

\* the stored goals of the reset scenario: a goal of any cadence that was
\* never completed, or was completed at a time of the calendar and is still
\* completed or has been edited since (an edit clears the completed flag only)
ResetGoals ==
    { [ FormGoal EXCEPT !.id = "1", !.recurring = r, !.completed = c, !.lastCompleted = l ] :
        r \in Cadences \cup { "none" }, c \in BOOLEAN,
        l \in { << >> } \cup { << t >> : t \in CalendarTicks } }

\* the dashboard about to mount over one stored goal, at a time of the
\* calendar not before the goal's completion
ResetInit ==
    /\ EngineInit /\ PureIdle /\ UiInit /\ SwIdle /\ ListIdle
    /\ storage \in { << g >> : g \in { r \in ResetGoals : r.completed => r.lastCompleted # << >> } }
    /\ clock \in { t \in CalendarTicks :
                     storage[1].lastCompleted # << >> => storage[1].lastCompleted[1] <= t }
    /\ goals = << >>
    /\ queued = << >>
    /\ phase = "load"
    /\ pass = 0
    /\ strict = FALSE

SpecReset == ResetInit /\ [][EffectsNext]_vars

---------------------------------------------------------------------------
(***************************************************************************)
(* Properties of the reset of recurring goals                              *)
(***************************************************************************)

\* the Monday that starts the week of a time, as a day
WeekStart(t) == DayOf(t) - ((GetDay(t) + 6) % 7)

\* the time l lies in an earlier day, week, month or year than the time t
EarlierPeriod(cadence, l, t) ==
    CASE cadence = "daily" -> DayOf(l) < DayOf(t)
      [] cadence = "weekly" -> WeekStart(l) < WeekStart(t)
      [] cadence = "monthly" ->
             \/ GetFullYear(l) < GetFullYear(t)
             \/ GetFullYear(l) = GetFullYear(t) /\ GetMonth(l) < GetMonth(t)
      [] cadence = "yearly" -> GetFullYear(l) < GetFullYear(t)
      [] OTHER -> FALSE

\* the load effect has run over the store and nothing has been saved yet
JustLoaded == phase = "save" /\ pass = 0 /\ Len(queued) = 1

\* C25: on load, a completed recurring goal is reset exactly when its
\* lastCompleted lies in an earlier day, week (from Monday), month or year
\* than the current time, and a goal with recurring "none" or without
\* lastCompleted is never reset.
ResetExactlyInEarlierPeriod ==
    JustLoaded =>
        \A i \in 1..Len(storage) :
            LET g == storage[i]
                loaded == queued[1][i]
            IN  /\ loaded \in { g, ResetGoal(g) }
                /\ (g.completed /\ g.recurring \in Cadences /\ g.lastCompleted # << >>)
                       => (loaded = ResetGoal(g)
                             <=> EarlierPeriod(g.recurring, g.lastCompleted[1], clock))
                /\ (g.recurring = "none" \/ g.lastCompleted = << >>) => loaded = g

---------------------------------------------------------------------------
(***************************************************************************)
(* Properties of the edit form                                             *)
(***************************************************************************)

\* the step is a submission of the edit form that reaches onEditGoal
EditSubmitted == editingGoal # NoId /\ editingGoal' = NoId

\* C26: submitting the edit form leaves the completed flag, the
\* lastCompleted time and the id of the edited goal, and every other goal of
\* the list, as they were.
EditKeepsCompletionAndOtherGoals ==
    [][ EditSubmitted =>
          /\ Len(goals') = Len(goals)
          /\ \A i \in 1..Len(goals) :
                IF goals[i].id = editingGoal
                THEN /\ goals'[i].id = goals[i].id
                     /\ goals'[i].completed = goals[i].completed
                     /\ goals'[i].lastCompleted = goals[i].lastCompleted
                ELSE goals'[i] = goals[i] ]_vars

---------------------------------------------------------------------------
(***************************************************************************)
(* Properties of the stored goal list                                      *)
(***************************************************************************)

\* the ids of the goals of a list
IdsOf(gs) == { gs[i].id : i \in 1..Len(gs) }

\* C27: after the dashboard mounts over a non-empty stored list, every goal
\* that is in the store and that the user has not removed is in the store at
\* the next moment too; the save effect of the mount never replaces the
\* stored goals by the initial empty list.
StoredGoalsNeverLost ==
    [][ IdsOf(storage) \ removed' \subseteq IdsOf(storage') ]_vars

---------------------------------------------------------------------------
(***************************************************************************)
(* Properties of the ids of added goals                                    *)
(***************************************************************************)

\* the step is a submission of the add-goal form that reaches onAddGoal
AddSubmitted ==
    /\ Len(goals') = Len(goals) + 1
    /\ goals'[1].title \in { f.title : f \in AddForms }

\* no two goals of the list have the same id
IdsDistinct(gs) == \A i, j \in 1..Len(gs) : gs[i].id = gs[j].id => i = j

\* C28: after the add-goal form is submitted, selectedGoal and
\* newlyCreatedGoalId are the id of the goal that was added to the list, and
\* no two goals of the list share an id.
SelectedGoalIsTheAddedGoal ==
    /\ [][ AddSubmitted =>
             /\ selectedGoal' = goals'[1].id
             /\ newlyCreatedGoalId' = goals'[1].id ]_vars
    /\ [] IdsDistinct(goals)

---------------------------------------------------------------------------
(***************************************************************************)
(* Properties of the guidance spotlight                                    *)
(***************************************************************************)

\* C29: once the effects have settled, a spotlight goal is selected whenever
\* the goal list is not empty, and the spotlighted goal is always a goal of
\* the list.
SpotlightChosenWhenGoalsExist ==
    /\ (Ready /\ goals # << >>) => spotlightGoal # << >>
    /\ spotlightGoal # << >> => spotlightGoal[1] \in GoalsShown

---------------------------------------------------------------------------
(***************************************************************************)
(* The service worker (public/sw.js).                                      *)
(*                                                                         *)
(* A cache is the set of the URLs it holds a response for.  The answer of  *)
(* a fetch event is "cached" (with the URL of the entry served), "network",*)
(* "offline page", "503", "default" when the worker leaves the request to  *)
(* the browser, or "undefined" when the promise given to respondWith       *)
(* resolves to no response, which the browser reports as a network error.  *)
(***************************************************************************)

Origin == "https://quranlife.app"

\* the URL a path of the worker's scope stands for
UrlOf(path) == Origin \o path

CACHE_ASSETS == << "/", "/habits", "/settings", "/privacy", "/terms", "/manifest.json",
                   "/favicon.svg", "/data/enhanced-quran.json" >>

\* String.prototype.startsWith
StartsWith(s, t) == Len(t) <= Len(s) /\ SubSeq(s, 1, Len(t)) = t

\* caches.match(url): some cache holds a response for the URL
CachesMatch(url) == \E c \in DOMAIN swCaches : url \in swCaches[c]

\* cache.put(url, response) on the cache of that name
CachePut(name, url) == [ swCaches EXCEPT ![name] = @ \cup { url } ]

OnlyWorker == UNCHANGED << pureVars, engineVars, uiVars, dashVars >>

\* the install event with cache.addAll(CACHE_ASSETS) stored: all the assets
\* are added
InstallCaches ==
    /\ swPhase = "installing"
    /\ swCaches' = [ swCaches EXCEPT
                       ![STATIC_CACHE] = @ \cup { UrlOf(CACHE_ASSETS[i]) : i \in 1..Len(CACHE_ASSETS) } ]
    /\ swPhase' = "active"
    /\ UNCHANGED swEvent
    /\ OnlyWorker

\* the install event with cache.addAll rejected (an asset cannot be
\* fetched): nothing is added, the catch logs the error and the installation
\* succeeds all the same
InstallCachesNothing ==
    /\ swPhase = "installing"
    /\ swPhase' = "active"
    /\ UNCHANGED << swCaches, swEvent >>
    /\ OnlyWorker

\* the fetch event of a request: requests that are not GET or not http(s)
\* are left to the browser, the others start with caches.match(request)
FetchEvent(request) ==
    /\ swPhase = "active"
    /\ swEvent.pc = "none"
    /\ swEvent' = IF request.method # "GET" \/ ~StartsWith(request.url, "http")
                  THEN [ NoEvent EXCEPT !.pc = "done", !.url = request.url,
                                        !.mode = request.mode, !.answer = "default" ]
                  ELSE [ NoEvent EXCEPT !.pc = "match", !.url = request.url,
                                        !.mode = request.mode ]
    /\ UNCHANGED << swCaches, swPhase >>
    /\ OnlyWorker

\* caches.match(event.request) resolves: the cached response is the answer,
\* or the request goes to the network
CacheMatchResolves ==
    /\ swEvent.pc = "match"
    /\ swEvent' = IF CachesMatch(swEvent.url)
                  THEN [ swEvent EXCEPT !.pc = "done", !.answer = "cached",
                                        !.served = swEvent.url, !.matched = TRUE ]
                  ELSE [ swEvent EXCEPT !.pc = "fetch" ]
    /\ UNCHANGED << swCaches, swPhase >>
    /\ OnlyWorker

\* the response is one of a static asset, by the name in its URL
IsStaticAsset(url) ==
    Includes(url, ".json") \/ Includes(url, ".js") \/ Includes(url, ".css") \/ Includes(url, ".svg")

\* fetch(event.request) resolves with a response of that status: a 200 is
\* put into the cache of pages or of static assets, and the response is the
\* answer
NetworkResponds(status) ==
    /\ swEvent.pc = "fetch"
    /\ swEvent' = [ swEvent EXCEPT !.pc = "done", !.answer = "network" ]
    /\ swCaches' = CASE status = 200 /\ swEvent.mode = "navigate" ->
                          CachePut(CACHE_NAME, swEvent.url)
                     [] status = 200 /\ swEvent.mode # "navigate" /\ IsStaticAsset(swEvent.url) ->
                          CachePut(STATIC_CACHE, swEvent.url)
                     [] OTHER -> swCaches
    /\ UNCHANGED swPhase
    /\ OnlyWorker

\* fetch(event.request) rejects.  For a navigation the catch returns
\* caches.match('/') || new Response(...): caches.match('/') is a promise, an
\* object, so the || never reaches the inline page and the answer is what
\* the lookup of '/' resolves to.  For another request the answer is the 503.
NetworkFails ==
    /\ swEvent.pc = "fetch"
    /\ swEvent' = IF swEvent.mode = "navigate"
                  THEN [ swEvent EXCEPT !.pc = "fallback", !.failed = TRUE ]
                  ELSE [ swEvent EXCEPT !.pc = "done", !.failed = TRUE, !.answer = "503" ]
    /\ UNCHANGED << swCaches, swPhase >>
    /\ OnlyWorker

\* caches.match('/') of the offline fallback resolves: to the cached page,
\* or to undefined
FallbackResolves ==
    /\ swEvent.pc = "fallback"
    /\ swEvent' = IF CachesMatch(UrlOf("/"))
                  THEN [ swEvent EXCEPT !.pc = "done", !.answer = "cached",
                                        !.served = UrlOf("/") ]
                  ELSE [ swEvent EXCEPT !.pc = "done", !.answer = "undefined" ]
    /\ UNCHANGED << swCaches, swPhase >>
    /\ OnlyWorker

\* the event is over and the worker waits for the next request
EventEnds ==
    /\ swEvent.pc = "done"
    /\ swEvent' = NoEvent
    /\ UNCHANGED << swCaches, swPhase >>
    /\ OnlyWorker

\* the requests of the page: two navigations, a script, a call of an API,
\* a form post and a request of a browser extension
Requests ==
    { [ url |-> UrlOf("/"), mode |-> "navigate", method |-> "GET" ],
      [ url |-> UrlOf("/goals"), mode |-> "navigate", method |-> "GET" ],
      [ url |-> UrlOf("/app.js"), mode |-> "no-cors", method |-> "GET" ],
      [ url |-> UrlOf("/api/verse"), mode |-> "cors", method |-> "GET" ],
      [ url |-> UrlOf("/api/verse"), mode |-> "cors", method |-> "POST" ],
      [ url |-> "chrome-extension://abc/inject.js", mode |-> "no-cors", method |-> "GET" ] }

\* the statuses of the responses of the network
Statuses == { 200, 404 }

WorkerNext ==
    \/ InstallCaches
    \/ InstallCachesNothing
    \/ \E r \in Requests : FetchEvent(r)
    \/ CacheMatchResolves
    \/ \E s \in Statuses : NetworkResponds(s)
    \/ NetworkFails
    \/ FallbackResolves
    \/ EventEnds

SpecWorker == Init /\ [][WorkerNext]_vars

---------------------------------------------------------------------------
(***************************************************************************)
(* Properties of the offline answers of the service worker                 *)
(***************************************************************************)

\* C30: a GET request that matched no cache entry and whose network fetch
\* failed is answered, for a navigation, with the cached '/' page when
\* there is one and with the inline offline page otherwise, and for another
\* request with the 503 response.
OfflineRequestIsAnswered ==
    (swEvent.pc = "done" /\ swEvent.failed /\ ~swEvent.matched) =>
        IF swEvent.mode = "navigate"
        THEN IF CachesMatch(UrlOf("/"))
             THEN swEvent.answer = "cached" /\ swEvent.served = UrlOf("/")
             ELSE swEvent.answer = "offline page"
        ELSE swEvent.answer = "503"

=============================================================================
